---- MODULE Spec2Model ----
(***************************************************************************)
(* The garden simulation engine (garden_env/simulator.py, objects.py,      *)
(* plant.py, weather.py) as a state machine.                               *)
(*                                                                         *)
(* Units.  The program computes in floats; the model computes in fixed     *)
(* point, rounding every product towards minus infinity:                   *)
(*   soil moisture, nutrients, device effects ... 1/1000   (0.5  = 500)    *)
(*   health, score ............................... 1/100   (100.0 = 10000) *)
(*   biomass ..................................... mg      (0.1 g = 100)   *)
(*   temperature ................................. 1/100 degree C          *)
(*   probabilities ............................... 1/1000                  *)
(*                                                                         *)
(* Randomness.  Every draw of the program comes from the process-wide      *)
(* generator of the random module.  The model keeps that generator's state *)
(* in rng and draws from it with a small linear congruential generator, so *)
(* that a run is a function of the generator's state at construction, the  *)
(* configuration and the policy.  Nothing in the program seeds the         *)
(* generator (both random.seed calls are commented out), so its state at   *)
(* construction is whatever the process has: Init draws it from a set.     *)
(***************************************************************************)
EXTENDS Integers, Sequences, FiniteSets, TLC

\* ------------------------------------------------------------------ bounds
\* Number of generator states a process may start from.
NumSeeds == 3
\* Steps of the run in Spec (the total_steps given to run_simulation).
MaxSteps == 16
\* Steps of the run in SpecLong: beyond both history buffers' capacities.
LongSteps == 26
\* Steps of each run, and number of runs, in SpecTwoRuns.
ShortSteps == 5
NumRuns == 2
\* Steps of the run in SpecPlants, and the number of steps the soil it meets
\* stays the same.
GrowSteps == 160
SoilPeriod == 96
NeglectSteps == 40
NeglectSeeds == 8

\* ------------------------------------------------- constants of the program
\* for i in range(5): five pots, one plant each
NumPots == 5
\* SensorReading's absent value (None)
None == -1
\* StateManager.log_step: at most 24 sensor entries, 48 action entries per pot
SensorHistoryMax == 24
ActionHistoryMax == 48
\* one day = 8 steps
StepsPerDay == 8
\* WeatherGenerator.get_weather_summary reads weather_history[-24:]
WeatherWindow == 24
\* SoilManager clamps
MoistureMax == 1300
NutrientsMax == 1500
\* over-saturation limits used by the plant, the orchestrator and the evaluator
MoistureExcessLimit == 1000
NutrientExcessLimit == 1200
\* Plant health clamp (100.0)
HealthMax == 10000
\* rainfall: +0.15 moisture, -0.05 nutrients, 8.0 mm
RainMoisture == 150
RainLeaching == 50
rain_amount == 8
\* WaterPump: failure_end_step = 1
PumpFailureEnd == 1
\* SensorArray: failure_duration = 1
SensorFailureDuration == 1

\* ------------------------------------------ configuration (config.json keys)
\* The configuration file is an input of the program.  These are the values
\* of the keys the program reads, chosen so that soil and health cross the
\* thresholds within the runs explored.
random_seed == 42
water_effect == 400
fertilizer_effect == 300
failure_probability == 200
sensor_error_probability == 150
evaporation_base_rate == 100
nutrient_consumption_rate == 50
temp_mean == 2400
temp_amplitude == 600
temp_noise_std == 200
rain_probability_per_day == 1600
weight_total_biomass == 4
weight_plant_health == 6
penalty_plant_death == -1000
penalty_overwatering == -200
penalty_overfertilizing == -300

Pots == 0 .. (NumPots - 1)

\* GardenSimulator.plants: the species of pot 0..4
species == <<"lettuce", "spinach", "radish", "swiss_chard", "nasturtium">>

SpeciesOf(p) == species[p + 1]

\* config["plants"][species]: thresholds and growth constants
plant_config ==
  [ lettuce     |-> [soil_threshold |-> 350, nutrient_threshold |-> 300,
                     critical_soil |-> 200, critical_nutrient |-> 150,
                     growth_rate_max |-> 200, harvest_day |-> 10],
    spinach     |-> [soil_threshold |-> 400, nutrient_threshold |-> 600,
                     critical_soil |-> 250, critical_nutrient |-> 480,
                     growth_rate_max |-> 150, harvest_day |-> 12],
    radish      |-> [soil_threshold |-> 300, nutrient_threshold |-> 300,
                     critical_soil |-> 150, critical_nutrient |-> 150,
                     growth_rate_max |-> 250, harvest_day |-> 9],
    swiss_chard |-> [soil_threshold |-> 380, nutrient_threshold |-> 350,
                     critical_soil |-> 220, critical_nutrient |-> 200,
                     growth_rate_max |-> 180, harvest_day |-> 20],
    nasturtium  |-> [soil_threshold |-> 300, nutrient_threshold |-> 250,
                     critical_soil |-> 180, critical_nutrient |-> 120,
                     growth_rate_max |-> 120, harvest_day |-> 20] ]

\* config["plants"]["nasturtium"]: the flowering-stage keys
flower_stage_soil_threshold == 450
flower_stage_day == 19

\* ------------------------------------------------------------- arithmetic
Max(a, b) == IF a >= b THEN a ELSE b
Min(a, b) == IF a <= b THEN a ELSE b

\* max(lo, min(hi, x))
Clamp(lo, hi, x) == Max(lo, Min(hi, x))

\* floor(a / b) for b > 0 and any a (\div of TLA+ already floors)
FloorDiv(a, b) == a \div b

\* math.sin in 1/1000 for an angle in degrees (Bhaskara's rational
\* approximation, exact at 0, 30, 90, 150 and 180 degrees)
SinMilli(deg) ==
  LET d == deg % 360
      x == IF d <= 180 THEN d ELSE d - 180
      v == (4000 * x * (180 - x)) \div (40500 - x * (180 - x))
  IN IF d <= 180 THEN v ELSE 0 - v

\* ------------------------------------------------- the random generator
RngModulus == 65537
RngMultiplier == 75
RngIncrement == 74

\* the generator's state after one more draw
RandomNext(r) == (r * RngMultiplier + RngIncrement) % RngModulus

\* the generator's state after k draws
RECURSIVE RandomAfter(_, _)
RandomAfter(r, k) == IF k = 0 THEN r ELSE RandomAfter(RandomNext(r), k - 1)

\* random.random() < p, for the draw that leaves the generator in state r
\* (p in 1/1000)
Below(r, p) == r * 1000 < p * RngModulus

\* random.choice over n alternatives / random.randint(lo, lo + n - 1): the
\* index 0..n-1 picked by the draw that leaves the generator in state r
Pick(r, n) == (r * n) \div RngModulus

\* random.gauss(0, sigma): the deviate, quantised to five values
Gauss(r, sigma) ==
  LET u == (r * 1000) \div RngModulus
  IN  IF u < 70 THEN 0 - ((3 * sigma) \div 2)
      ELSE IF u < 310 THEN 0 - (sigma \div 2)
      ELSE IF u < 690 THEN 0
      ELSE IF u < 930 THEN sigma \div 2
      ELSE (3 * sigma) \div 2

\* the states the process-wide generator may be in when the simulator is
\* constructed (nothing seeds it)
EntropyState(i) == (i * 12345 + 6789) % RngModulus

\* ------------------------------------------------------------------ state
VARIABLES
  pc,                 \* where run_simulation / step_simulation stands
  step,               \* the loop variable of run_simulation (= current_step)
  total_steps,        \* the argument of run_simulation
  is_running,         \* GardenSimulator.is_running
  policy,             \* GardenSimulator.student_functions
  rng,                \* state of the process-wide random generator
  current_weather,    \* WeatherSimulator.current_weather
  weather_history,    \* WeatherGenerator.weather_history
  water_pump,         \* WaterPump: is_failed, failure_end_step, counters
  fertilizer,         \* Fertilizer: is_failed, failure_end_step, counters
  sensor_failures,    \* SensorArray.sensor_failures: pot_id -> failure_end_step
  reading_count,      \* SensorArray.reading_count
  operation_log,      \* DeviceManager.operation_log
  soil_states,        \* SoilManager.soil_states: the five SoilState objects
  plants,             \* GardenSimulator.plants: the five Plant objects
  score_history,      \* EvaluationEngine.score_history
  simulation_history, \* StateManager.simulation_history (references)
  sensor_history,     \* StateManager.sensor_history: pot_id -> list
  action_history,     \* StateManager.action_history: pot_id -> list
  daily_summaries,    \* StateManager.daily_summaries
  sensor_readings,    \* step_simulation's local: this step's readings
  student_decisions,  \* step_simulation's local: this step's requests
  device_actions,     \* step_simulation's local: this step's executed actions
  plant_states,       \* step_simulation's local: this step's snapshots
  pot_index,          \* index of the per-pot / per-request loop in progress
  printed,            \* the policy-error warnings printed so far: <<step, pot>>
  invoked,            \* the policy calls made in this step: <<function, pot>>
  heap,               \* every StepResult object created, by identity
  step_results,       \* GardenSimulator.step_results (references into heap)
  reports             \* the reports run_simulation has returned, in order

vars ==
  << pc, step, total_steps, is_running, policy, rng, current_weather,
     weather_history, water_pump, fertilizer, sensor_failures, reading_count,
     operation_log, soil_states, plants, score_history, simulation_history,
     sensor_history, action_history, daily_summaries, sensor_readings,
     student_decisions, device_actions, plant_states, pot_index, printed,
     invoked, heap, step_results, reports >>

\* ---------------------------------------------------------------- policies
\* A decision policy is a pair of pure functions of the observation.  The
\* rules the model draws the two functions from:
\*   never, always            constant answers
\*   while_alive, when_dead   read plant_status.health
\*   early                    read step: True in the first seven steps
\*   low_reading              sensor value < 0.35, as in the docstring of
\*                            register_student_functions: comparing an absent
\*                            value raises TypeError
\*   low_guarded              the same, answering False on an absent value
\*   broken                   raises on every call
\*   broken_pot2              raises for pot 2, answers True for the others
Rules ==
  { "never", "always", "while_alive", "when_dead", "early", "low_reading",
    "low_guarded", "broken", "broken_pot2" }

\* a policy's answer: "T", "F", or "X" when the call raises
Answer(rule, value, obs) ==
  CASE rule = "never" -> "F"
    [] rule = "always" -> "T"
    [] rule = "while_alive" ->
         IF obs.plant_status.health > 0 THEN "T" ELSE "F"
    [] rule = "when_dead" ->
         IF obs.plant_status.health <= 0 THEN "T" ELSE "F"
    [] rule = "early" -> IF obs.step < 7 THEN "T" ELSE "F"
    [] rule = "low_reading" ->
         IF value = None THEN "X" ELSE IF value < 350 THEN "T" ELSE "F"
    [] rule = "low_guarded" ->
         IF value # None /\ value < 350 THEN "T" ELSE "F"
    [] rule = "broken" -> "X"
    [] rule = "broken_pot2" -> IF obs.pot_id = 2 THEN "X" ELSE "T"

should_water(obs) == Answer(policy.should_water, obs.sensor_data.soil_moisture, obs)

should_fertilize(obs) ==
  Answer(policy.should_fertilize, obs.sensor_data.nutrient_level, obs)

Policy(w, f) == [should_water |-> w, should_fertilize |-> f]

\* the policies a run is given
Policies ==
  { Policy("never", "never"), Policy("always", "always"),
    Policy("while_alive", "when_dead"), Policy("early", "when_dead"),
    Policy("low_reading", "low_reading"), Policy("low_guarded", "low_guarded"),
    Policy("always", "broken"), Policy("broken_pot2", "always"),
    Policy("always", "never"), Policy("never", "always") }

\* ------------------------------------------------------------ construction
NoWeather ==
  [temperature |-> 0, is_raining |-> FALSE, rainfall_amount |-> 0, step |-> None]

\* Plant.__init__ (and Nasturtium.__init__) for the plant of pot p
NewPlant(p) ==
  [ soil_moisture |-> 500, nutrient_level |-> 500, health |-> HealthMax,
    biomass |-> 100, phenology |-> "seedling",
    soil_threshold |-> plant_config[SpeciesOf(p)].soil_threshold,
    days_alive |-> 0, step_count |-> 0, stress_level |-> 0,
    is_flowering_stage |-> FALSE ]

\* WaterPump.__init__ / Fertilizer.__init__
NewDevice ==
  [ is_failed |-> FALSE, failure_end_step |-> 0, count |-> 0, used |-> 0,
    failure_probability |-> failure_probability ]

\* GardenSimulator.__init__: every component new; the generator is not seeded
Constructed ==
  /\ pc = "idle"
  /\ step = 0
  /\ is_running = FALSE
  /\ current_weather = NoWeather
  /\ weather_history = << >>
  /\ water_pump = NewDevice
  /\ fertilizer = NewDevice
  /\ sensor_failures = << >>
  /\ reading_count = 0
  /\ operation_log = << >>
  /\ soil_states = [p \in Pots |-> [moisture |-> 500, nutrients |-> 500, pot_id |-> p]]
  /\ plants = [p \in Pots |-> NewPlant(p)]
  /\ score_history = << >>
  /\ simulation_history = << >>
  /\ sensor_history = << >>
  /\ action_history = << >>
  /\ daily_summaries = << >>
  /\ sensor_readings = << >>
  /\ student_decisions = [water |-> << >>, fertilize |-> << >>]
  /\ device_actions = [water |-> << >>, fertilize |-> << >>]
  /\ plant_states = << >>
  /\ pot_index = 0
  /\ printed = << >>
  /\ invoked = << >>
  /\ heap = << >>
  /\ step_results = << >>

Init ==
  /\ Constructed
  /\ rng \in {EntropyState(i) : i \in 1 .. NumSeeds}
  /\ policy \in Policies
  /\ total_steps = MaxSteps
  /\ reports = << >>

\* ----------------------------------------------------------------- weather
\* WeatherGenerator._generate_temperature, for the draw that leaves the
\* generator in state r
generate_temperature(s, time_of_day, r) ==
  LET daily_cycle == (temp_amplitude * SinMilli(time_of_day * 15)) \div 1000
      seasonal_drift == (50 * SinMilli((s * 3) \div 2)) \div 1000
      noise == Gauss(r, temp_noise_std)
  IN Clamp(500, 4000, temp_mean + daily_cycle + seasonal_drift + noise)

\* WeatherGenerator._generate_rainfall: <<is_raining, rainfall_amount>>
generate_rainfall(r) ==
  IF Below(r, rain_probability_per_day \div StepsPerDay)
  THEN <<TRUE, rain_amount>>
  ELSE <<FALSE, 0>>

\* WeatherGenerator.generate_weather: the WeatherState of step s, drawing
\* twice from the generator in state r
generate_weather(s, r) ==
  LET r1 == RandomNext(r)
      r2 == RandomNext(r1)
      rain == generate_rainfall(r2)
  IN [ temperature |-> generate_temperature(s, (s * 3) % 24, r1),
       is_raining |-> rain[1], rainfall_amount |-> rain[2], step |-> s ]

\* step 1 of step_simulation: weather_sim.step_weather(step)
StepWeather ==
  /\ pc = "weather"
  /\ step < total_steps
  /\ current_weather' = generate_weather(step, rng)
  /\ weather_history' = Append(weather_history, current_weather')
  /\ rng' = RandomAfter(rng, 2)
  /\ pc' = "sensors"
  /\ UNCHANGED << step, total_steps, is_running, policy, water_pump,
        fertilizer, sensor_failures, reading_count, operation_log,
        soil_states, plants, score_history, simulation_history,
        sensor_history, action_history, daily_summaries, sensor_readings,
        student_decisions, device_actions, plant_states, pot_index, printed,
        invoked, heap, step_results, reports >>

\* ----------------------------------------------------------------- sensors
Reading(kind, m, n, t, ts) ==
  [ kind |-> kind, soil_moisture |-> m, nutrient_level |-> n,
    temperature |-> t, timestamp |-> ts ]

\* random.choice([0.95, 0.05])
Extreme(r) == IF Pick(r, 2) = 0 THEN 950 ELSE 50

\* a first loop that keeps a failed pot through the read at its
\* failure_end_step
recovered_late(failures, current_step) ==
  [p \in {q \in DOMAIN failures : current_step <= failures[q]} |-> failures[p]]

\* SensorArray.get_readings, first loop: the failures left once every pot
\* with current_step >= failure_end_step has recovered
recovered(failures, current_step) ==
  [p \in {q \in DOMAIN failures : current_step < failures[q]} |-> failures[p]]

\* SensorArray.get_readings, second loop: pots p.. draw for a new failure,
\* one draw for each pot that is not failed
RECURSIVE trigger_failures(_, _, _, _)
trigger_failures(p, failures, r, current_step) ==
  IF p = NumPots THEN [failures |-> failures, rng |-> r]
  ELSE IF p \in DOMAIN failures
       THEN trigger_failures(p + 1, failures, r, current_step)
       ELSE LET r1 == RandomNext(r)
            IN IF Below(r1, failure_probability)
               THEN trigger_failures(p + 1,
                      failures @@ (p :> (current_step + SensorFailureDuration)),
                      r1, current_step)
               ELSE trigger_failures(p + 1, failures, r1, current_step)

\* a stuck fault that passes the plant's own soil values through
generate_faulty_reading_live(plant, t, current_step, r) ==
  LET r1 == RandomNext(r)
      r2 == RandomNext(r1)
      r3 == RandomNext(r2)
      fault_type == Pick(r1, 3)
  IN  IF fault_type = 0
      THEN [reading |->
              Reading("stuck", plant.soil_moisture, plant.nutrient_level,
                      t, current_step),
            rng |-> r1]
      ELSE [reading |-> Reading("spike", Extreme(r2), Extreme(r3), t, current_step),
            rng |-> r3]

\* SensorArray._generate_faulty_reading
generate_faulty_reading(plant, t, current_step, r) ==
  LET r1 == RandomNext(r)
      r2 == RandomNext(r1)
      r3 == RandomNext(r2)
      fault_type == Pick(r1, 3)
      drift_factor == 300 + ((400 * r2) \div RngModulus)
  IN  IF fault_type = 0
      THEN [reading |-> Reading("stuck", 500, 500, t, current_step), rng |-> r1]
      ELSE IF fault_type = 1
      THEN [reading |->
              Reading("drift",
                Clamp(0, 1000, (plant.soil_moisture * drift_factor) \div 1000),
                Clamp(0, 1000, (plant.nutrient_level * drift_factor) \div 1000),
                t, current_step),
            rng |-> r2]
      ELSE [reading |-> Reading("spike", Extreme(r2), Extreme(r3), t, current_step),
            rng |-> r3]

\* SensorArray._generate_error_reading
generate_error_reading(plant, t, current_step, r) ==
  LET r1 == RandomNext(r)
      r2 == RandomNext(r1)
      r3 == RandomNext(r2)
  IN  IF Below(r1, 500)
      THEN [reading |-> Reading("extreme", Extreme(r2), Extreme(r3), t, current_step),
            rng |-> r3]
      ELSE [reading |-> Reading("missing", None, None, t, current_step), rng |-> r1]

\* a third loop whose normal reading already holds this step's rain
read_pot_rained(i, failures, t, current_step, r) ==
  IF i \in DOMAIN failures
  THEN generate_faulty_reading(plants[i], t, current_step, r)
  ELSE LET r1 == RandomNext(r)
           rain == IF current_weather.is_raining THEN 150 ELSE 0
       IN IF Below(r1, sensor_error_probability)
          THEN generate_error_reading(plants[i], t, current_step, r1)
          ELSE [reading |->
                  Reading("normal", plants[i].soil_moisture + rain,
                          plants[i].nutrient_level, t, current_step),
                rng |-> r1]

\* a third loop that draws the error reading whatever the fault state
read_pot_error_first(i, failures, t, current_step, r) ==
  LET r1 == RandomNext(r)
  IN IF Below(r1, sensor_error_probability)
     THEN generate_error_reading(plants[i], t, current_step, r1)
     ELSE IF i \in DOMAIN failures
     THEN generate_faulty_reading(plants[i], t, current_step, r1)
     ELSE [reading |->
             Reading("normal", plants[i].soil_moisture,
                     plants[i].nutrient_level, t, current_step),
           rng |-> r1]

\* SensorArray.get_readings, third loop, for pot i
read_pot(i, failures, t, current_step, r) ==
  IF i \in DOMAIN failures
  THEN generate_faulty_reading(plants[i], t, current_step, r)
  ELSE LET r1 == RandomNext(r)
       IN IF Below(r1, sensor_error_probability)
          THEN generate_error_reading(plants[i], t, current_step, r1)
          ELSE [reading |->
                  Reading("normal", plants[i].soil_moisture,
                          plants[i].nutrient_level, t, current_step),
                rng |-> r1]

\* SensorArray.get_readings, third loop: the readings of pots i.., added to acc
RECURSIVE read_pots(_, _, _, _, _, _)
read_pots(i, acc, failures, t, current_step, r) ==
  IF i = NumPots THEN [readings |-> acc, rng |-> r]
  ELSE CHOOSE all \in
         { read_pots(i + 1, acc @@ (i :> one.reading), failures, t,
                     current_step, one.rng) :
           one \in { read_pot(i, failures, t, current_step, r) } } : TRUE

\* SensorArray.get_readings: the failure map, the readings and the generator
\* after the call
get_readings(t, current_step, r) ==
  LET faults == trigger_failures(0, recovered(sensor_failures, current_step),
                                 r, current_step)
      read == read_pots(0, << >>, faults.failures, t, current_step, faults.rng)
  IN [ failures |-> faults.failures,
       readings |-> [pots |-> read.readings,
                     environment |-> [temperature |-> t, timestamp |-> current_step]],
       rng |-> read.rng ]

\* step 2 of step_simulation: device_manager.get_sensor_readings(...)
GetSensorReadings ==
  /\ pc = "sensors"
  /\ LET got == get_readings(current_weather.temperature, step, rng)
     IN /\ sensor_failures' = got.failures
        /\ sensor_readings' = got.readings
        /\ rng' = got.rng
  /\ reading_count' = reading_count + 1
  /\ pot_index' = 0
  /\ pc' = "decide"
  /\ UNCHANGED << step, total_steps, is_running, policy, current_weather,
        weather_history, water_pump, fertilizer, operation_log, soil_states,
        plants, score_history, simulation_history, sensor_history,
        action_history, daily_summaries, student_decisions, device_actions,
        plant_states, printed, invoked, heap, step_results, reports >>

\* --------------------------------------------------------------- decisions
\* a snapshot whose soil fields are cut off at 1.0
get_status_unit(plant) ==
  [ soil_moisture |-> Min(1000, plant.soil_moisture),
    nutrient_level |-> Min(1000, plant.nutrient_level),
    health |-> plant.health, biomass |-> plant.biomass,
    phenology |-> plant.phenology, days_alive |-> plant.days_alive,
    stress_level |-> plant.stress_level ]

\* Plant.get_status: the PlantStatus snapshot of a plant
get_status(plant) ==
  [ soil_moisture |-> plant.soil_moisture, nutrient_level |-> plant.nutrient_level,
    health |-> plant.health, biomass |-> plant.biomass,
    phenology |-> plant.phenology, days_alive |-> plant.days_alive,
    stress_level |-> plant.stress_level ]

\* StateManager.get_sensor_history / get_action_history: dict.get(pot_id, [])
get_sensor_history(p) ==
  IF p \in DOMAIN sensor_history THEN sensor_history[p] ELSE << >>

get_action_history(p) ==
  IF p \in DOMAIN action_history THEN action_history[p] ELSE << >>

\* a state dictionary whose sensor history already holds the reading of the
\* current step
Observation_current(p) ==
  [ pot_id |-> p, step |-> step, day |-> step \div StepsPerDay,
    time_of_day |-> (step * 3) % 24,
    sensor_data |-> sensor_readings.pots[p],
    environment |-> sensor_readings.environment,
    Rain |-> current_weather.is_raining,
    plant_type |-> SpeciesOf(p),
    plant_status |-> get_status(plants[p]),
    sensor_history |->
      Append(get_sensor_history(p),
             [step |-> step,
              soil_moisture |-> sensor_readings.pots[p].soil_moisture,
              nutrient_level |-> sensor_readings.pots[p].nutrient_level,
              temperature |-> sensor_readings.pots[p].temperature]),
    action_history |-> get_action_history(p) ]

\* the state dictionary _make_student_decisions_with_history hands the policy
Observation(p) ==
  [ pot_id |-> p, step |-> step, day |-> step \div StepsPerDay,
    time_of_day |-> (step * 3) % 24,
    sensor_data |-> sensor_readings.pots[p],
    environment |-> sensor_readings.environment,
    Rain |-> current_weather.is_raining,
    plant_type |-> SpeciesOf(p),
    plant_status |-> get_status(plants[p]),
    sensor_history |-> get_sensor_history(p),
    action_history |-> get_action_history(p) ]

\* the try block with the water request appended before should_fertilize
\* is called
decide_pot_water_first(p, decisions) ==
  LET w == should_water(Observation(p))
      f == IF w = "X" THEN "X" ELSE should_fertilize(Observation(p))
      calls == IF w = "X" THEN << <<"should_water", p>> >>
               ELSE << <<"should_water", p>>, <<"should_fertilize", p>> >>
      raised == w = "X" \/ f = "X"
      water == IF w = "T"
               THEN Append(decisions.water, [pot_id |-> p, duration |-> 500])
               ELSE decisions.water
      fert == IF ~raised /\ f = "T"
              THEN Append(decisions.fertilize, [pot_id |-> p, amount |-> 1000])
              ELSE decisions.fertilize
  IN [ decisions |-> [water |-> water, fertilize |-> fert],
       raised |-> raised, calls |-> calls ]

\* a try block that appends the water request of a pot twice
decide_pot_twice(p, decisions) ==
  LET w == should_water(Observation(p))
      f == IF w = "X" THEN "X" ELSE should_fertilize(Observation(p))
      calls == IF w = "X" THEN << <<"should_water", p>> >>
               ELSE << <<"should_water", p>>, <<"should_fertilize", p>> >>
      raised == w = "X" \/ f = "X"
      request == [pot_id |-> p, duration |-> 500]
      water == IF ~raised /\ w = "T"
               THEN Append(Append(decisions.water, request), request)
               ELSE decisions.water
      fert == IF ~raised /\ f = "T"
              THEN Append(decisions.fertilize, [pot_id |-> p, amount |-> 1000])
              ELSE decisions.fertilize
  IN [ decisions |-> [water |-> water, fertilize |-> fert],
       raised |-> raised, calls |-> calls ]

\* the body of the try block for pot p: the two calls in order (the second
\* is not reached when the first raises), and the requests appended when
\* neither raised
decide_pot(p, decisions) ==
  LET w == should_water(Observation(p))
      f == IF w = "X" THEN "X" ELSE should_fertilize(Observation(p))
      calls == IF w = "X" THEN << <<"should_water", p>> >>
               ELSE << <<"should_water", p>>, <<"should_fertilize", p>> >>
      raised == w = "X" \/ f = "X"
      water == IF ~raised /\ w = "T"
               THEN Append(decisions.water, [pot_id |-> p, duration |-> 500])
               ELSE decisions.water
      fert == IF ~raised /\ f = "T"
              THEN Append(decisions.fertilize, [pot_id |-> p, amount |-> 1000])
              ELSE decisions.fertilize
  IN [ decisions |-> [water |-> water, fertilize |-> fert],
       raised |-> raised, calls |-> calls ]

\* where step_simulation goes once the decisions d are complete:
\* _execute_device_actions runs the water requests, then the fertilize ones
AfterDecisions(d) ==
  IF Len(d.water) > 0 THEN "water"
  ELSE IF Len(d.fertilize) > 0 THEN "fertilize"
  ELSE "soil"

\* step 3 of step_simulation, one pot of the loop of
\* _make_student_decisions_with_history
MakeStudentDecision ==
  /\ pc = "decide"
  /\ LET p == pot_index
         before == IF p = 0 THEN [water |-> << >>, fertilize |-> << >>]
                   ELSE student_decisions
         got == decide_pot(p, before)
     IN /\ student_decisions' = got.decisions
        /\ printed' = IF got.raised THEN Append(printed, <<step, p>>) ELSE printed
        /\ invoked' = (IF p = 0 THEN << >> ELSE invoked) \o got.calls
        /\ IF p + 1 < NumPots
           THEN /\ pot_index' = p + 1
                /\ pc' = "decide"
                /\ UNCHANGED device_actions
           ELSE /\ pot_index' = 1
                /\ pc' = AfterDecisions(got.decisions)
                /\ device_actions' = [water |-> << >>, fertilize |-> << >>]
  /\ UNCHANGED << step, total_steps, is_running, policy, rng, current_weather,
        weather_history, water_pump, fertilizer, sensor_failures,
        reading_count, operation_log, soil_states, plants, score_history,
        simulation_history, sensor_history, action_history, daily_summaries,
        sensor_readings, plant_states, heap, step_results, reports >>

\* ----------------------------------------------------------------- devices
\* irrigate drawing its fault from the configured probability instead of
\* the pump's own failure_probability field
irrigate_config_probability(pump, current_step, r) ==
  LET is_failed1 == pump.is_failed /\ ~(current_step >= pump.failure_end_step)
      r1 == IF is_failed1 THEN r ELSE RandomNext(r)
      fault == ~is_failed1 /\ Below(r1, failure_probability)
      is_failed2 == is_failed1 \/ fault
      end == IF fault THEN PumpFailureEnd ELSE pump.failure_end_step
  IN  IF is_failed2
      THEN [ device |-> [pump EXCEPT !.is_failed = TRUE, !.failure_end_step = end],
             effect |-> 0, rng |-> r1 ]
      ELSE [ device |-> [pump EXCEPT !.is_failed = FALSE,
                                      !.used = @ + water_effect,
                                      !.count = @ + 1],
             effect |-> water_effect, rng |-> r1 ]

\* WaterPump.irrigate: the pump, the effect and the generator after the call
irrigate(pump, current_step, r) ==
  LET is_failed1 == pump.is_failed /\ ~(current_step >= pump.failure_end_step)
      r1 == IF is_failed1 THEN r ELSE RandomNext(r)
      fault == ~is_failed1 /\ Below(r1, pump.failure_probability)
      is_failed2 == is_failed1 \/ fault
      end == IF fault THEN PumpFailureEnd ELSE pump.failure_end_step
  IN  IF is_failed2
      THEN [ device |-> [pump EXCEPT !.is_failed = TRUE, !.failure_end_step = end],
             effect |-> 0, rng |-> r1 ]
      ELSE [ device |-> [pump EXCEPT !.is_failed = FALSE,
                                      !.used = @ + water_effect,
                                      !.count = @ + 1],
             effect |-> water_effect, rng |-> r1 ]

\* apply_fertilizer with a dispenser that recovers one step early
apply_fertilizer_early(disp, current_step, r) ==
  LET is_failed1 == disp.is_failed /\ ~(current_step + 1 >= disp.failure_end_step)
      r1 == IF is_failed1 THEN r ELSE RandomNext(r)
      fault == ~is_failed1 /\ Below(r1, disp.failure_probability)
      r2 == IF fault THEN RandomNext(r1) ELSE r1
      is_failed2 == is_failed1 \/ fault
      end == IF fault THEN current_step + 3 + Pick(r2, 6)
             ELSE disp.failure_end_step
  IN  IF is_failed2
      THEN [ device |-> [disp EXCEPT !.is_failed = TRUE, !.failure_end_step = end],
             effect |-> 0, rng |-> r2 ]
      ELSE [ device |-> [disp EXCEPT !.is_failed = FALSE,
                                      !.used = @ + fertilizer_effect,
                                      !.count = @ + 1],
             effect |-> fertilizer_effect, rng |-> r2 ]

\* Fertilizer.apply_fertilizer: the same, with a recovery step drawn by
\* random.randint(3, 8)
apply_fertilizer(disp, current_step, r) ==
  LET is_failed1 == disp.is_failed /\ ~(current_step >= disp.failure_end_step)
      r1 == IF is_failed1 THEN r ELSE RandomNext(r)
      fault == ~is_failed1 /\ Below(r1, disp.failure_probability)
      r2 == IF fault THEN RandomNext(r1) ELSE r1
      is_failed2 == is_failed1 \/ fault
      end == IF fault THEN current_step + 3 + Pick(r2, 6)
             ELSE disp.failure_end_step
  IN  IF is_failed2
      THEN [ device |-> [disp EXCEPT !.is_failed = TRUE, !.failure_end_step = end],
             effect |-> 0, rng |-> r2 ]
      ELSE [ device |-> [disp EXCEPT !.is_failed = FALSE,
                                      !.used = @ + fertilizer_effect,
                                      !.count = @ + 1],
             effect |-> fertilizer_effect, rng |-> r2 ]

\* an operation_log entry whose success flag ignores the effect
LogEntryFlagged(s, action, p, requested, effect) ==
  [ step |-> s, action |-> action, pot_id |-> p, requested |-> requested,
    actual_effect |-> effect, success |-> TRUE ]

\* an entry of DeviceManager.operation_log
LogEntry(s, action, p, requested, effect) ==
  [ step |-> s, action |-> action, pot_id |-> p, requested |-> requested,
    actual_effect |-> effect, success |-> effect > 0 ]

\* an entry of device_actions, as _execute_device_actions records it
ActionEntry(s, p, requested, effect) ==
  [ pot_id |-> p, step |-> s, requested |-> requested,
    actual_effect |-> effect, success |-> effect > 0 ]

\* device_actions[...].append kept for successful actuations only
record_successful_action(list, entry) ==
  IF entry.success THEN Append(list, entry) ELSE list

\* device_actions[...].append(entry) of _execute_device_actions
record_action(list, entry) == Append(list, entry)

\* step 4 of step_simulation, one water request: execute_watering and the
\* entry _execute_device_actions appends
ExecuteWatering ==
  /\ pc = "water"
  /\ LET decision == student_decisions.water[pot_index]
         done == irrigate(water_pump, step, rng)
     IN /\ water_pump' = done.device
        /\ rng' = done.rng
        /\ operation_log' = Append(operation_log,
             LogEntry(step, "water", decision.pot_id, decision.duration, done.effect))
        /\ device_actions' = [device_actions EXCEPT !.water =
             record_action(@, ActionEntry(step, decision.pot_id, decision.duration,
                                          done.effect))]
  /\ IF pot_index < Len(student_decisions.water)
     THEN pot_index' = pot_index + 1 /\ pc' = "water"
     ELSE /\ pot_index' = 1
          /\ pc' = IF Len(student_decisions.fertilize) > 0 THEN "fertilize" ELSE "soil"
  /\ UNCHANGED << step, total_steps, is_running, policy, current_weather,
        weather_history, fertilizer, sensor_failures, reading_count,
        soil_states, plants, score_history, simulation_history,
        sensor_history, action_history, daily_summaries, sensor_readings,
        student_decisions, plant_states, printed, invoked, heap,
        step_results, reports >>

\* step 4 of step_simulation, one fertilize request
ExecuteFertilizing ==
  /\ pc = "fertilize"
  /\ LET decision == student_decisions.fertilize[pot_index]
         done == apply_fertilizer(fertilizer, step, rng)
     IN /\ fertilizer' = done.device
        /\ rng' = done.rng
        /\ operation_log' = Append(operation_log,
             LogEntry(step, "fertilize", decision.pot_id, decision.amount, done.effect))
        /\ device_actions' = [device_actions EXCEPT !.fertilize =
             record_action(@, ActionEntry(step, decision.pot_id, decision.amount,
                                          done.effect))]
  /\ IF pot_index < Len(student_decisions.fertilize)
     THEN pot_index' = pot_index + 1 /\ pc' = "fertilize"
     ELSE pot_index' = 1 /\ pc' = "soil"
  /\ UNCHANGED << step, total_steps, is_running, policy, current_weather,
        weather_history, water_pump, sensor_failures, reading_count,
        soil_states, plants, score_history, simulation_history,
        sensor_history, action_history, daily_summaries, sensor_readings,
        student_decisions, plant_states, printed, invoked, heap,
        step_results, reports >>

\* -------------------------------------------------------------------- soil
\* a liveness test that looks at the health only
is_alive_by_health(plant) == plant.health > 0

\* Plant.is_alive
is_alive(plant) == plant.phenology # "dead" /\ plant.health > 0

\* the sum of the positive effects of the actions in log, whatever their pot
RECURSIVE EffectOnAnyPot(_, _)
EffectOnAnyPot(log, p) ==
  IF log = << >> THEN 0
  ELSE (IF Head(log).actual_effect > 0 THEN Head(log).actual_effect ELSE 0)
       + EffectOnAnyPot(Tail(log), p)

\* the sum of the positive effects of the actions in log that target pot p
RECURSIVE EffectOn(_, _)
EffectOn(log, p) ==
  IF log = << >> THEN 0
  ELSE (IF Head(log).pot_id = p /\ Head(log).actual_effect > 0
        THEN Head(log).actual_effect ELSE 0) + EffectOn(Tail(log), p)

\* the moisture clamp without its ceiling
clamp_moisture_no_ceiling(m) == Max(0, m)

\* the clamps that end the two soil updates
clamp_moisture(m) == Max(0, Min(MoistureMax, m))

clamp_nutrients(n) == Max(0, Min(NutrientsMax, n))

\* SoilManager._update_moisture_simple: the new moisture of a pot
update_moisture_simple(soil, weather, actions, plant) ==
  LET base_consumption == evaporation_base_rate
      temp_extra == (base_consumption * Max(0, weather.temperature - 2500) * 2)
                      \div 10000
      plant_consumption == IF is_alive(plant)
                           THEN (plant.biomass * plant.health) \div 5000000
                           ELSE 0
      total_consumption == base_consumption + temp_extra + plant_consumption
      rainfall_input == IF weather.is_raining THEN RainMoisture ELSE 0
      irrigation == EffectOn(actions.water, soil.pot_id)
  IN clamp_moisture(soil.moisture + rainfall_input + irrigation
                      - total_consumption)

\* a nutrient update in which the rain brings nutrients instead of leaching
\* them
update_nutrients_simple_rain_feeds(soil, weather, actions, plant) ==
  LET plant_uptake == IF is_alive(plant)
                      THEN (nutrient_consumption_rate * plant.health) \div 10000
                      ELSE 0
      rain_gain == IF weather.is_raining THEN RainLeaching ELSE 0
      fertilizer_input == EffectOn(actions.fertilize, soil.pot_id)
  IN clamp_nutrients(soil.nutrients + fertilizer_input - plant_uptake
                       + rain_gain)

\* SoilManager._update_nutrients_simple: the new nutrients of a pot
update_nutrients_simple(soil, weather, actions, plant) ==
  LET plant_uptake == IF is_alive(plant)
                      THEN (nutrient_consumption_rate * plant.health) \div 10000
                      ELSE 0
      rain_loss == IF weather.is_raining THEN RainLeaching ELSE 0
      fertilizer_input == EffectOn(actions.fertilize, soil.pot_id)
  IN clamp_nutrients(soil.nutrients + fertilizer_input - plant_uptake
                       - rain_loss)

\* step 5 of step_simulation: SoilManager.update_soil
UpdateSoil ==
  /\ pc = "soil"
  /\ soil_states' =
       [p \in Pots |->
          [ soil_states[p] EXCEPT
              !.moisture = update_moisture_simple(soil_states[p], current_weather,
                                                  device_actions, plants[p]),
              !.nutrients = update_nutrients_simple(soil_states[p], current_weather,
                                                    device_actions, plants[p]) ]]
  /\ pc' = "plants"
  /\ UNCHANGED << step, total_steps, is_running, policy, rng, current_weather,
        weather_history, water_pump, fertilizer, sensor_failures,
        reading_count, operation_log, plants, score_history,
        simulation_history, sensor_history, action_history, daily_summaries,
        sensor_readings, student_decisions, device_actions, plant_states,
        pot_index, printed, invoked, heap, step_results, reports >>

\* ------------------------------------------------------------------ plants
\* a phenology that keeps the seedling stage through day 7
update_phenology_base_late(plant, harvest_day) ==
  IF plant.health <= 0 THEN [plant EXCEPT !.phenology = "dead"]
  ELSE IF plant.days_alive <= 7 THEN [plant EXCEPT !.phenology = "seedling"]
  ELSE IF plant.days_alive * 10 < harvest_day * 9
       THEN [plant EXCEPT !.phenology = "flowering"]
  ELSE IF plant.days_alive * 10 < harvest_day * 12
       THEN [plant EXCEPT !.phenology = "harvestable"]
  ELSE [plant EXCEPT !.phenology = "dormant"]

\* Plant._update_phenology (lettuce, spinach, radish)
update_phenology_base(plant, harvest_day) ==
  IF plant.health <= 0 THEN [plant EXCEPT !.phenology = "dead"]
  ELSE IF plant.days_alive < 7 THEN [plant EXCEPT !.phenology = "seedling"]
  ELSE IF plant.days_alive * 10 < harvest_day * 7
       THEN [plant EXCEPT !.phenology = "vegetative"]
  ELSE IF plant.days_alive * 10 < harvest_day * 9
       THEN [plant EXCEPT !.phenology = "flowering"]
  ELSE IF plant.days_alive * 10 < harvest_day * 12
       THEN [plant EXCEPT !.phenology = "harvestable"]
  ELSE [plant EXCEPT !.phenology = "dormant"]

\* SwissChard._update_phenology
update_phenology_swiss_chard(plant) ==
  IF plant.health <= 0 THEN [plant EXCEPT !.phenology = "dead"]
  ELSE IF plant.days_alive < 10 THEN [plant EXCEPT !.phenology = "seedling"]
  ELSE IF plant.days_alive < 20 THEN [plant EXCEPT !.phenology = "vegetative"]
  ELSE [plant EXCEPT !.phenology = "harvestable"]

\* a nasturtium that enters its harvestable stage with its threshold as it was
update_phenology_nasturtium_fixed(plant) ==
  IF plant.health <= 0 THEN [plant EXCEPT !.phenology = "dead"]
  ELSE IF plant.days_alive < 10
       THEN [plant EXCEPT !.phenology = "seedling", !.is_flowering_stage = FALSE]
  ELSE IF plant.days_alive < 18
       THEN [plant EXCEPT !.phenology = "vegetative", !.is_flowering_stage = FALSE]
  ELSE IF plant.days_alive < flower_stage_day
       THEN [plant EXCEPT !.phenology = "flowering", !.is_flowering_stage = FALSE]
  ELSE [plant EXCEPT !.phenology = "harvestable", !.is_flowering_stage = TRUE]

\* Nasturtium._update_phenology
update_phenology_nasturtium(plant) ==
  IF plant.health <= 0 THEN [plant EXCEPT !.phenology = "dead"]
  ELSE IF plant.days_alive < 10
       THEN [plant EXCEPT !.phenology = "seedling", !.is_flowering_stage = FALSE]
  ELSE IF plant.days_alive < 18
       THEN [plant EXCEPT !.phenology = "vegetative", !.is_flowering_stage = FALSE]
  ELSE IF plant.days_alive < flower_stage_day
       THEN [plant EXCEPT !.phenology = "flowering", !.is_flowering_stage = FALSE]
  ELSE [plant EXCEPT !.phenology = "harvestable", !.is_flowering_stage = TRUE,
                     !.soil_threshold = flower_stage_soil_threshold]

\* the _update_phenology of the plant's class
update_phenology(plant, sp) ==
  IF sp = "swiss_chard" THEN update_phenology_swiss_chard(plant)
  ELSE IF sp = "nasturtium" THEN update_phenology_nasturtium(plant)
  ELSE update_phenology_base(plant, plant_config[sp].harvest_day)

\* health_change with the severe moisture scarcity counted as a gain
health_change_gain(plant, cfg, severe, mild) ==
  LET water == IF plant.soil_moisture < cfg.critical_soil THEN severe
               ELSE IF plant.soil_moisture < plant.soil_threshold THEN 0 - mild
               ELSE 0
      nutrient == IF plant.nutrient_level < cfg.critical_nutrient THEN -500
                  ELSE IF plant.nutrient_level < cfg.nutrient_threshold THEN -100
                  ELSE 0
      toxic == IF plant.nutrient_level > NutrientExcessLimit THEN -1000 ELSE 0
      logged == IF plant.soil_moisture > MoistureExcessLimit THEN -800 ELSE 0
      stress == water + nutrient + toxic + logged
  IN  IF plant.soil_moisture >= plant.soil_threshold
         /\ plant.nutrient_level >= cfg.nutrient_threshold
      THEN stress + 300
      ELSE IF stress = 0 THEN stress + 100
      ELSE stress

\* a health_change whose baseline recovery does not ask for health_change == 0
health_change_baseline(plant, cfg, severe, mild) ==
  LET water == IF plant.soil_moisture < cfg.critical_soil THEN 0 - severe
               ELSE IF plant.soil_moisture < plant.soil_threshold THEN 0 - mild
               ELSE 0
      nutrient == IF plant.nutrient_level < cfg.critical_nutrient THEN -500
                  ELSE IF plant.nutrient_level < cfg.nutrient_threshold THEN -100
                  ELSE 0
      toxic == IF plant.nutrient_level > NutrientExcessLimit THEN -1000 ELSE 0
      logged == IF plant.soil_moisture > MoistureExcessLimit THEN -800 ELSE 0
      stress == water + nutrient + toxic + logged
  IN  IF plant.soil_moisture >= plant.soil_threshold
         /\ plant.nutrient_level >= cfg.nutrient_threshold
      THEN stress + 300
      ELSE stress + 100

\* the health_change of _update_health_simple: severe and mild are the two
\* moisture-scarcity terms (5.0 and 1.0; 3.0 and 0.5 for the radish)
health_change(plant, cfg, severe, mild) ==
  LET water == IF plant.soil_moisture < cfg.critical_soil THEN 0 - severe
               ELSE IF plant.soil_moisture < plant.soil_threshold THEN 0 - mild
               ELSE 0
      nutrient == IF plant.nutrient_level < cfg.critical_nutrient THEN -500
                  ELSE IF plant.nutrient_level < cfg.nutrient_threshold THEN -100
                  ELSE 0
      toxic == IF plant.nutrient_level > NutrientExcessLimit THEN -1000 ELSE 0
      logged == IF plant.soil_moisture > MoistureExcessLimit THEN -800 ELSE 0
      stress == water + nutrient + toxic + logged
  IN  IF plant.soil_moisture >= plant.soil_threshold
         /\ plant.nutrient_level >= cfg.nutrient_threshold
      THEN stress + 300
      ELSE IF stress = 0 THEN stress + 100
      ELSE stress

\* the clamp of the health after the change is applied, without its floor
clamp_health_no_floor(h) == Min(HealthMax, h)

\* the clamp of the health after the change is applied
clamp_health(h) == Max(0, Min(HealthMax, h))

\* a health update in which the radish has the terms of the base class
update_health_simple_uniform(plant, sp) ==
  LET change == health_change(plant, plant_config[sp], 500, 100)
      h == clamp_health(plant.health + change)
  IN [plant EXCEPT !.health = h,
                   !.phenology = IF h <= 0 THEN "dead" ELSE @]

\* Plant._update_health_simple / Radish._update_health_simple
update_health_simple(plant, sp) ==
  LET change == IF sp = "radish"
                THEN health_change(plant, plant_config[sp], 300, 50)
                ELSE health_change(plant, plant_config[sp], 500, 100)
      h == clamp_health(plant.health + change)
  IN [plant EXCEPT !.health = h,
                   !.phenology = IF h <= 0 THEN "dead" ELSE @]

\* a growth that does not look at the health first
update_growth_simple_ungated(plant, cfg) ==
  LET stage_factor == IF plant.phenology = "seedling" THEN 6
                      ELSE IF plant.phenology = "harvestable" THEN 3
                      ELSE IF plant.phenology = "dormant" THEN 0
                      ELSE 10
      growth == (cfg.growth_rate_max * stage_factor * 10 * plant.health)
                  \div 1000000
  IN [plant EXCEPT !.biomass = @ + growth]

\* Plant._update_growth_simple
update_growth_simple(plant, cfg) ==
  IF plant.health <= 2000 THEN plant
  ELSE LET stage_factor == IF plant.phenology = "seedling" THEN 6
                           ELSE IF plant.phenology = "harvestable" THEN 3
                           ELSE IF plant.phenology = "dormant" THEN 0
                           ELSE 10
           condition_factor ==
             IF plant.soil_moisture < cfg.critical_soil
                \/ plant.nutrient_level < cfg.critical_nutrient THEN 1
             ELSE IF plant.soil_moisture < plant.soil_threshold
                     \/ plant.nutrient_level < cfg.nutrient_threshold THEN 5
             ELSE 10
           growth == (cfg.growth_rate_max * stage_factor * condition_factor
                        * plant.health) \div 1000000
       IN [plant EXCEPT !.biomass = @ + growth]

\* Plant._update_stress_simple
update_stress_simple(plant, cfg) ==
  LET water == IF plant.soil_moisture < cfg.critical_soil THEN 900
               ELSE IF plant.soil_moisture < plant.soil_threshold THEN 400
               ELSE 0
      nutrient == IF plant.nutrient_level < cfg.critical_nutrient THEN 900
                  ELSE IF plant.nutrient_level < cfg.nutrient_threshold THEN 400
                  ELSE 0
  IN [plant EXCEPT !.stress_level = (water + nutrient) \div 2]

\* Plant.update: the plant after the update of step s with the soil given;
\* p0 takes the step and the soil, p1..p4 are the plant after each of the four
\* sub-updates in the order of the code
update(plant, sp, soil, s) ==
  CHOOSE p4 \in
    { update_stress_simple(p3, plant_config[sp]) :
      p3 \in { update_growth_simple(p2, plant_config[sp]) :
      p2 \in { update_health_simple(p1, sp) :
      p1 \in { update_phenology(p0, sp) :
      p0 \in { [plant EXCEPT !.step_count = s,
                             !.days_alive = s \div StepsPerDay,
                             !.soil_moisture = soil.moisture,
                             !.nutrient_level = soil.nutrients] } } } } } : TRUE

\* a step 6 that copies the soil and leaves the health to the plant's update
direct_damage_skipped(plant, soil) ==
  [plant EXCEPT !.soil_moisture = soil.moisture,
                !.nutrient_level = soil.nutrients]

\* step 6 of step_simulation, the direct over-saturation damage: the health
\* the plant enters update with
direct_damage(plant, soil) ==
  LET water == IF soil.moisture > MoistureExcessLimit
               THEN (soil.moisture - MoistureExcessLimit) * 2 ELSE 0
      nutrient == IF soil.nutrients > NutrientExcessLimit
                  THEN (soil.nutrients - NutrientExcessLimit) * 3 ELSE 0
  IN [plant EXCEPT !.soil_moisture = soil.moisture,
                   !.nutrient_level = soil.nutrients,
                   !.health = @ - water - nutrient]

\* step 6 of step_simulation: every plant takes the soil values, the direct
\* damage and its own update; plant_states collects the snapshots
UpdatePlants ==
  /\ pc = "plants"
  /\ plants' = [p \in Pots |->
        update(direct_damage(plants[p], soil_states[p]), SpeciesOf(p),
               soil_states[p], step)]
  /\ plant_states' = [p \in Pots |-> get_status(plants'[p])]
  /\ pc' = "score"
  /\ UNCHANGED << step, total_steps, is_running, policy, rng, current_weather,
        weather_history, water_pump, fertilizer, sensor_failures,
        reading_count, operation_log, soil_states, score_history,
        simulation_history, sensor_history, action_history, daily_summaries,
        sensor_readings, student_decisions, device_actions, pot_index,
        printed, invoked, heap, step_results, reports >>

\* -------------------------------------------------------------- evaluation
\* sum of f over the pots
RECURSIVE SumPots(_, _)
SumPots(f, n) == IF n = 0 THEN 0 ELSE f[n - 1] + SumPots(f, n - 1)

AlivePots(ps) == {p \in Pots : is_alive(ps[p])}

\* EvaluationEngine._calculate_biomass_score
calculate_biomass_score(ps) ==
  Min(HealthMax,
      SumPots([p \in Pots |-> IF is_alive(ps[p]) THEN ps[p].biomass ELSE 0],
              NumPots) \div 5)

\* EvaluationEngine._calculate_health_score
calculate_health_score(ps) ==
  IF AlivePots(ps) = {} THEN 0
  ELSE SumPots([p \in Pots |-> IF is_alive(ps[p]) THEN ps[p].health ELSE 0],
               NumPots) \div Cardinality(AlivePots(ps))

\* EvaluationEngine._calculate_penalties_enhanced
calculate_penalties_enhanced(ps, actions) ==
  LET dead_plants == NumPots - Cardinality(AlivePots(ps))
      water_actions == Len(actions.water)
      fertilize_actions == Len(actions.fertilize)
  IN  dead_plants * penalty_plant_death
      + (IF water_actions > 10
         THEN (water_actions - 10) * penalty_overwatering ELSE 0)
      + (IF fertilize_actions > 15
         THEN (fertilize_actions - 15) * penalty_overfertilizing ELSE 0)
      + SumPots([p \in Pots |->
                   IF ps[p].soil_moisture > MoistureExcessLimit
                   THEN (ps[p].soil_moisture - MoistureExcessLimit) * 5 ELSE 0],
                NumPots)

\* EvaluationEngine.calculate_score: the record appended to score_history
score_record(s, ps, actions) ==
  LET biomass_score == calculate_biomass_score(ps)
      health_score == calculate_health_score(ps)
      base_score == (biomass_score * weight_total_biomass
                     + health_score * weight_plant_health) \div 10
      penalty == calculate_penalties_enhanced(ps, actions)
  IN [ step |-> s, base_score |-> base_score, penalty |-> penalty,
       final_score |-> Max(0, base_score + penalty),
       water_actions |-> Len(actions.water),
       fertilize_actions |-> Len(actions.fertilize),
       components |-> [biomass |-> biomass_score, health |-> health_score] ]

\* step 7 of step_simulation: evaluator.calculate_score
CalculateScore ==
  /\ pc = "score"
  /\ score_history' = Append(score_history, score_record(step, plants, device_actions))
  /\ pc' = "record"
  /\ UNCHANGED << step, total_steps, is_running, policy, rng, current_weather,
        weather_history, water_pump, fertilizer, sensor_failures,
        reading_count, operation_log, soil_states, plants,
        simulation_history, sensor_history, action_history, daily_summaries,
        sensor_readings, student_decisions, device_actions, plant_states,
        pot_index, printed, invoked, heap, step_results, reports >>

\* ----------------------------------------------------------------- history
\* SoilManager.get_all_soil_states: a copy of the list, holding the same five
\* SoilState objects (the object of pot p is identified by p)
get_all_soil_states == [p \in Pots |-> p]

\* the StepResult step_simulation builds, with the score just computed
NewStepResult ==
  [ step |-> step, weather |-> current_weather,
    soil_states |-> get_all_soil_states,
    plant_states |-> plant_states, sensor_readings |-> sensor_readings,
    student_decisions |-> student_decisions, device_actions |-> device_actions,
    score |-> score_history[Len(score_history)].final_score ]

\* the last n entries of a list (the whole list when it is shorter)
LastN(list, n) ==
  IF Len(list) <= n THEN list ELSE SubSeq(list, Len(list) - n + 1, Len(list))

\* log_step, sensor part, popping the newest entry instead of the oldest
log_sensor_pop_last(history, result) ==
  [p \in Pots |->
     LET old == IF p \in DOMAIN history THEN history[p] ELSE << >>
         r == result.sensor_readings.pots[p]
         new == Append(old, [step |-> result.step, soil_moisture |-> r.soil_moisture,
                             nutrient_level |-> r.nutrient_level,
                             temperature |-> r.temperature])
     IN IF Len(new) > SensorHistoryMax THEN SubSeq(new, 1, Len(new) - 1) ELSE new]

\* log_step, sensor part: the reading of pot p is appended and, beyond 24
\* entries, the first entry is popped
log_sensor(history, result) ==
  [p \in Pots |->
     LET old == IF p \in DOMAIN history THEN history[p] ELSE << >>
         r == result.sensor_readings.pots[p]
         new == Append(old, [step |-> result.step, soil_moisture |-> r.soil_moisture,
                             nutrient_level |-> r.nutrient_level,
                             temperature |-> r.temperature])
     IN IF Len(new) > SensorHistoryMax THEN Tail(new) ELSE new]

\* the entries of kind a for the requests in list that target pot p
RECURSIVE RequestsOf(_, _, _, _)
RequestsOf(list, p, s, a) ==
  IF list = << >> THEN << >>
  ELSE (IF Head(list).pot_id = p THEN << [step |-> s, action |-> a] >> ELSE << >>)
       \o RequestsOf(Tail(list), p, s, a)

\* log_step, action part, recording the device actions that succeeded
\* instead of the requests
log_actions_executed(history, result) ==
  [p \in Pots |->
     LET old == IF p \in DOMAIN history THEN history[p] ELSE << >>
         new == old
                \o RequestsOf(SelectSeq(result.device_actions.water,
                                        LAMBDA a : a.success),
                              p, result.step, "water")
                \o RequestsOf(SelectSeq(result.device_actions.fertilize,
                                        LAMBDA a : a.success),
                              p, result.step, "fertilize")
     IN IF Len(new) > ActionHistoryMax THEN LastN(new, ActionHistoryMax) ELSE new]

\* log_step, action part: the water requests, then the fertilize requests of
\* pot p are appended, and the last 48 entries kept
log_actions(history, result) ==
  [p \in Pots |->
     LET old == IF p \in DOMAIN history THEN history[p] ELSE << >>
         new == old
                \o RequestsOf(result.student_decisions.water, p, result.step, "water")
                \o RequestsOf(result.student_decisions.fertilize, p, result.step,
                              "fertilize")
     IN IF Len(new) > ActionHistoryMax THEN LastN(new, ActionHistoryMax) ELSE new]

\* sum of the entries of a list of numbers
RECURSIVE SumSeq(_)
SumSeq(list) == IF list = << >> THEN 0 ELSE Head(list) + SumSeq(Tail(list))

\* a daily summary over everything recorded so far
create_daily_summary_all(s, history, objects) ==
  LET Rain(ref) == IF objects[ref].weather.is_raining
                   THEN objects[ref].weather.rainfall_amount ELSE 0
      Health(ref) == SumPots([p \in Pots |-> objects[ref].plant_states[p].health],
                             NumPots)
  IN [ day |-> s \div StepsPerDay,
       avg_temperature |->
         SumSeq([k \in 1 .. Len(history) |-> objects[history[k]].weather.temperature])
           \div Len(history),
       total_rainfall |-> SumSeq([k \in 1 .. Len(history) |-> Rain(history[k])]),
       avg_plant_health |->
         SumSeq([k \in 1 .. Len(history) |-> Health(history[k])])
           \div (Len(history) * 5),
       total_water_actions |->
         SumSeq([k \in 1 .. Len(history) |->
                   Len(objects[history[k]].student_decisions.water)]),
       total_fertilize_actions |->
         SumSeq([k \in 1 .. Len(history) |->
                   Len(objects[history[k]].student_decisions.fertilize)]),
       steps |-> [i \in 1 .. Len(history) |-> objects[history[i]].step] ]

\* StateManager._create_daily_summary over the history given (references)
create_daily_summary(s, history, objects) ==
  LET daily_steps == LastN(history, StepsPerDay)
      Temp(ref) == objects[ref].weather.temperature
      Rain(ref) == IF objects[ref].weather.is_raining
                   THEN objects[ref].weather.rainfall_amount ELSE 0
      Health(ref) == SumPots([p \in Pots |-> objects[ref].plant_states[p].health],
                             NumPots)
      Water(ref) == Len(objects[ref].student_decisions.water)
      Fert(ref) == Len(objects[ref].student_decisions.fertilize)
  IN [ day |-> s \div StepsPerDay,
       avg_temperature |-> SumSeq([k \in 1 .. Len(daily_steps) |-> Temp(daily_steps[k])]) \div Len(daily_steps),
       total_rainfall |-> SumSeq([k \in 1 .. Len(daily_steps) |-> Rain(daily_steps[k])]),
       avg_plant_health |-> SumSeq([k \in 1 .. Len(daily_steps) |-> Health(daily_steps[k])]) \div (Len(daily_steps) * 5),
       total_water_actions |-> SumSeq([k \in 1 .. Len(daily_steps) |-> Water(daily_steps[k])]),
       total_fertilize_actions |-> SumSeq([k \in 1 .. Len(daily_steps) |-> Fert(daily_steps[k])]),
       steps |-> [i \in 1 .. Len(daily_steps) |-> objects[daily_steps[i]].step] ]

\* step 8 of step_simulation: the StepResult is created and
\* state_manager.log_step(step_result) records it
LogStep ==
  /\ pc = "record"
  /\ heap' = Append(heap, NewStepResult)
  /\ simulation_history' = Append(simulation_history, Len(heap'))
  /\ sensor_history' = log_sensor(sensor_history, NewStepResult)
  /\ action_history' = log_actions(action_history, NewStepResult)
  /\ daily_summaries' =
       IF step % StepsPerDay = 7
       THEN Append(daily_summaries,
                   create_daily_summary(step, simulation_history', heap'))
       ELSE daily_summaries
  /\ pc' = "append"
  /\ UNCHANGED << step, total_steps, is_running, policy, rng, current_weather,
        weather_history, water_pump, fertilizer, sensor_failures,
        reading_count, operation_log, soil_states, plants, score_history,
        sensor_readings, student_decisions, device_actions, plant_states,
        pot_index, printed, invoked, step_results, reports >>

\* run_simulation's loop body after step_simulation returns:
\* self.step_results.append(step_result), and on to the next step
AppendResult ==
  /\ pc = "append"
  /\ step_results' = Append(step_results, Len(heap))
  /\ step' = step + 1
  /\ pc' = "weather"
  /\ UNCHANGED << total_steps, is_running, policy, rng, current_weather,
        weather_history, water_pump, fertilizer, sensor_failures,
        reading_count, operation_log, soil_states, plants, score_history,
        simulation_history, sensor_history, action_history, daily_summaries,
        sensor_readings, student_decisions, device_actions, plant_states,
        pot_index, printed, invoked, heap, reports >>

\* ------------------------------------------------------------------ report
RECURSIVE MaxSeq(_)
MaxSeq(list) ==
  IF Len(list) = 1 THEN Head(list) ELSE Max(Head(list), MaxSeq(Tail(list)))

\* EvaluationEngine.get_evaluation_summary
get_evaluation_summary ==
  IF score_history = << >> THEN [empty |-> TRUE]
  ELSE LET finals == [i \in 1 .. Len(score_history) |-> score_history[i].final_score]
       IN [ final_score |-> finals[Len(finals)],
            score_trend |-> LastN(finals, 20),
            component_breakdown |-> score_history[Len(score_history)].components,
            total_penalties |->
              SumSeq([i \in 1 .. Len(score_history) |-> score_history[i].penalty]),
            best_score |-> MaxSeq(finals) ]

\* StateManager.get_simulation_summary (without the wall-clock runtime)
get_simulation_summary ==
  [ total_steps |-> Len(simulation_history),
    daily_summaries |-> daily_summaries,
    final_scores |-> LET last == LastN(simulation_history, StepsPerDay)
                     IN [i \in 1 .. Len(last) |-> heap[last[i]].score] ]

\* every StepResult StateManager.log_step has recorded, in order
Logged == [i \in 1 .. Len(simulation_history) |-> heap[simulation_history[i]]]

\* the recorded StepResult objects in place of the collected ones
ResultsLogged == [i \in 1 .. Len(simulation_history) |-> heap[simulation_history[i]]]

\* self.step_results: the StepResult objects run_simulation has collected
Results == [i \in 1 .. Len(step_results) |-> heap[step_results[i]]]

\* GardenSimulator._generate_final_report over step_results
generate_final_report ==
  IF step_results = << >> THEN [error |-> TRUE]
  ELSE
    LET results == Results
        final_step == results[Len(results)]
        alive == {p \in Pots : final_step.plant_states[p].health > 0}
        Water(r) == Len(r.student_decisions.water)
        Fert(r) == Len(r.student_decisions.fertilize)
        WaterOk(r) == Len(SelectSeq(r.device_actions.water, LAMBDA a : a.success))
        FertOk(r) == Len(SelectSeq(r.device_actions.fertilize, LAMBDA a : a.success))
        scores == [i \in 1 .. Len(results) |-> results[i].score]
    IN [ simulation_summary |->
           [ total_steps |-> Len(results),
             total_days |-> Len(results) \div StepsPerDay,
             final_score |-> final_step.score,
             max_score |-> MaxSeq(scores),
             avg_score |-> SumSeq(scores) \div Len(scores) ],
         plant_results |->
           [ alive_count |-> Cardinality(alive),
             total_biomass |->
               SumPots([p \in Pots |-> IF p \in alive
                                       THEN final_step.plant_states[p].biomass
                                       ELSE 0], NumPots),
             average_health |->
               SumPots([p \in Pots |-> IF p \in alive
                                       THEN final_step.plant_states[p].health
                                       ELSE 0], NumPots)
                 \div Max(1, Cardinality(alive)),
             individual_plants |-> final_step.plant_states ],
         student_performance |->
           [ total_water_actions |-> SumSeq([k \in 1 .. Len(results) |-> Water(results[k])]),
             total_fertilize_actions |-> SumSeq([k \in 1 .. Len(results) |-> Fert(results[k])]),
             successful_water_actions |-> SumSeq([k \in 1 .. Len(results) |-> WaterOk(results[k])]),
             successful_fertilize_actions |-> SumSeq([k \in 1 .. Len(results) |-> FertOk(results[k])]),
             score_trend |-> LastN(scores, 40) ],
         evaluation_summary |-> get_evaluation_summary,
         state_summary |-> get_simulation_summary ]

\* --------------------------------------------------------- run_simulation
\* run_simulation up to the loop: is_running, step_results = []
RunSimulation ==
  /\ pc = "idle"
  /\ is_running' = TRUE
  /\ step_results' = << >>
  /\ step' = 0
  /\ pc' = "weather"
  /\ UNCHANGED << total_steps, policy, rng, current_weather, weather_history,
        water_pump, fertilizer, sensor_failures, reading_count, operation_log,
        soil_states, plants, score_history, simulation_history,
        sensor_history, action_history, daily_summaries, sensor_readings,
        student_decisions, device_actions, plant_states, pot_index, printed,
        invoked, heap, reports >>

\* the return of run_simulation: finally, then _generate_final_report
Return ==
  /\ is_running' = FALSE
  /\ reports' = Append(reports, generate_final_report)
  /\ pc' = "done"
  /\ UNCHANGED << step, total_steps, policy, rng, current_weather,
        weather_history, water_pump, fertilizer, sensor_failures,
        reading_count, operation_log, soil_states, plants, score_history,
        simulation_history, sensor_history, action_history, daily_summaries,
        sensor_readings, student_decisions, device_actions, plant_states,
        pot_index, printed, invoked, heap, step_results >>

\* the loop of run_simulation ends one step early
FinishRunEarly ==
  /\ pc = "weather"
  /\ step + 1 = total_steps
  /\ Return

\* the loop of run_simulation is exhausted
FinishRun ==
  /\ pc = "weather"
  /\ step = total_steps
  /\ Return

\* the points of the loop of run_simulation between two calls
LoopPoints ==
  { "weather", "sensors", "decide", "water", "fertilize", "soil", "plants",
    "score", "record", "append" }

\* KeyboardInterrupt raised at a point of the loop: except, finally, report
Interrupt ==
  /\ pc \in LoopPoints
  /\ Return

\* one step of the loop of run_simulation, or its normal end
RunStep ==
  \/ RunSimulation
  \/ StepWeather
  \/ GetSensorReadings
  \/ MakeStudentDecision
  \/ ExecuteWatering
  \/ ExecuteFertilizing
  \/ UpdateSoil
  \/ UpdatePlants
  \/ CalculateScore
  \/ LogStep
  \/ AppendResult
  \/ FinishRun

Next == RunStep \/ Interrupt

\* One run of MaxSteps steps, which the user may interrupt at any point.
Spec == Init /\ [][Next]_vars

\* One run of LongSteps steps under the policies that request the most and
\* the least, which the user may interrupt at any point.
InitLong ==
  /\ Constructed
  /\ rng \in {EntropyState(i) : i \in 1 .. NumSeeds}
  /\ policy \in {Policy("always", "always"), Policy("low_guarded", "low_reading")}
  /\ total_steps = LongSteps
  /\ reports = << >>

SpecLong == InitLong /\ [][Next]_vars

\* GardenSimulator(config_path) once more, with the same configuration (and
\* so the same random_seed key) and the same policy registered, in the same
\* process or in a new one.  __init__ does not seed the generator: in the
\* same process it continues from its current state, a new process starts
\* it from any state.  The report of the finished run stays with the caller.
Reconstruct ==
  /\ pc = "done"
  /\ Len(reports) < NumRuns
  /\ pc' = "idle"
  /\ step' = 0
  /\ is_running' = FALSE
  /\ current_weather' = NoWeather
  /\ weather_history' = << >>
  /\ water_pump' = NewDevice
  /\ fertilizer' = NewDevice
  /\ sensor_failures' = << >>
  /\ reading_count' = 0
  /\ operation_log' = << >>
  /\ soil_states' = [p \in Pots |-> [moisture |-> 500, nutrients |-> 500, pot_id |-> p]]
  /\ plants' = [p \in Pots |-> NewPlant(p)]
  /\ score_history' = << >>
  /\ simulation_history' = << >>
  /\ sensor_history' = << >>
  /\ action_history' = << >>
  /\ daily_summaries' = << >>
  /\ sensor_readings' = << >>
  /\ student_decisions' = [water |-> << >>, fertilize |-> << >>]
  /\ device_actions' = [water |-> << >>, fertilize |-> << >>]
  /\ plant_states' = << >>
  /\ pot_index' = 0
  /\ printed' = << >>
  /\ invoked' = << >>
  /\ heap' = << >>
  /\ step_results' = << >>
  /\ rng' \in {rng} \cup {EntropyState(i) : i \in 1 .. NumSeeds}
  /\ UNCHANGED << total_steps, policy, reports >>

InitTwoRuns ==
  /\ Constructed
  /\ rng \in {EntropyState(i) : i \in 1 .. NumSeeds}
  /\ policy \in Policies
  /\ total_steps = ShortSteps
  /\ reports = << >>

NextTwoRuns == RunStep \/ Reconstruct

\* NumRuns uninterrupted runs of ShortSteps steps, each on a newly
\* constructed simulator.
SpecTwoRuns == InitTwoRuns /\ [][NextTwoRuns]_vars

\* ================================================================ properties
\* what a reader of the i-th collected StepResult sees now: its fields, with
\* the SoilState objects its soil_states list refers to
Seen(i) ==
  [ Results[i] EXCEPT !.soil_states =
      [p \in Pots |-> soil_states[Results[i].soil_states[p]]] ]

\* C1: once a pot's snapshot has phenology dead, the pot's snapshot is dead
\* in every later StepResult of the run.
DeadIsAbsorbing ==
  \A i \in 1 .. Len(step_results) : \A j \in 1 .. Len(step_results) :
    \A p \in Pots :
      (i < j /\ Results[i].plant_states[p].phenology = "dead")
        => Results[j].plant_states[p].phenology = "dead"

\* C2: in every recorded snapshot the phenology is dead exactly when the
\* health is not above 0.
DeadIffNoHealth ==
  \A i \in 1 .. Len(step_results) : \A p \in Pots :
    (Results[i].plant_states[p].phenology = "dead")
      <=> (Results[i].plant_states[p].health <= 0)

\* C3: the health of every plant, and of every snapshot taken of it, lies in
\* [0, 100], also in the steps where the direct over-saturation damage is
\* subtracted before the update.
HealthInRange ==
  /\ \A p \in Pots : plants[p].health >= 0 /\ plants[p].health <= HealthMax
  /\ \A i \in 1 .. Len(heap) : \A p \in Pots :
       /\ heap[i].plant_states[p].health >= 0
       /\ heap[i].plant_states[p].health <= HealthMax

\* a snapshot taken in a step whose soil was over-saturated, so that the
\* direct damage and the -8 of the update met a health they exhaust
HealthClampedAtZero ==
  \E i \in 1 .. Len(step_results) : \E p \in Pots :
    /\ Results[i].plant_states[p].soil_moisture > MoistureExcessLimit
    /\ Results[i].plant_states[p].health = 0
    /\ i > 1
    /\ Results[i - 1].plant_states[p].health > 0
    /\ Results[i - 1].plant_states[p].health < 800

\* C4: after every soil update of every pot the moisture lies in [0, 1.3]
\* and the nutrients lie in [0, 1.5].
SoilInRange ==
  \A p \in Pots :
    /\ soil_states[p].moisture >= 0 /\ soil_states[p].moisture <= MoistureMax
    /\ soil_states[p].nutrients >= 0 /\ soil_states[p].nutrients <= NutrientsMax

\* a soil update has just left one pot at the moisture ceiling after a
\* successful watering, and one pot at the nutrient floor
SoilClamped ==
  /\ pc = "plants"
  /\ \E p \in Pots :
       /\ soil_states[p].moisture = MoistureMax
       /\ EffectOn(device_actions.water, p) > 0
       /\ plants[p].soil_moisture + EffectOn(device_actions.water, p) > MoistureMax + 200
  /\ \E q \in Pots : soil_states[q].nutrients = 0

\* C5: a StepResult that run_simulation has collected reads the same ever
\* after: no later step changes what its fields show.
ResultsNeverChange ==
  [][\A i \in 1 .. Len(step_results) :
       i <= Len(step_results') => Seen(i)' = Seen(i)]_vars

\* C6: a call of a device that is failed, at a step before its
\* failure_end_step, returns effect 0, is logged with success false and
\* leaves the device failed until the same step; so a non-zero effect
\* returns only at a step >= failure_end_step.
FailedDeviceReturnsZero ==
  [][ /\ ( /\ pc = "water"
           /\ Len(operation_log') = Len(operation_log) + 1
           /\ water_pump.is_failed
           /\ step < water_pump.failure_end_step )
         => /\ operation_log'[Len(operation_log')].action = "water"
            /\ operation_log'[Len(operation_log')].actual_effect = 0
            /\ operation_log'[Len(operation_log')].success = FALSE
            /\ device_actions'.water[Len(device_actions'.water)].actual_effect = 0
            /\ water_pump'.is_failed
            /\ water_pump'.failure_end_step = water_pump.failure_end_step
      /\ ( /\ pc = "fertilize"
           /\ Len(operation_log') = Len(operation_log) + 1
           /\ fertilizer.is_failed
           /\ step < fertilizer.failure_end_step )
         => /\ operation_log'[Len(operation_log')].action = "fertilize"
            /\ operation_log'[Len(operation_log')].actual_effect = 0
            /\ operation_log'[Len(operation_log')].success = FALSE
            /\ device_actions'.fertilize[Len(device_actions'.fertilize)].actual_effect = 0
            /\ fertilizer'.is_failed
            /\ fertilizer'.failure_end_step = fertilizer.failure_end_step
    ]_vars

\* the dispenser was just called while failed: a fault that began at this
\* step would end at step + 3 or later
FailedDispenserCalled ==
  /\ Len(operation_log) > 0
  /\ operation_log[Len(operation_log)].action = "fertilize"
  /\ operation_log[Len(operation_log)].step = step
  /\ operation_log[Len(operation_log)].actual_effect = 0
  /\ fertilizer.is_failed
  /\ step < fertilizer.failure_end_step
  /\ fertilizer.failure_end_step < step + 3

\* C7: runs of simulators constructed with the same random_seed, policy and
\* configuration report the same score trajectory.
SameSeedSameScores ==
  \A i \in 1 .. Len(reports) : \A j \in 1 .. Len(reports) :
    reports[i].student_performance.score_trend
      = reports[j].student_performance.score_trend

\* the entries log_step has been given for pot p by the first n logged steps
RECURSIVE RequestsUpTo(_, _)
RequestsUpTo(p, n) ==
  IF n = 0 THEN << >>
  ELSE RequestsUpTo(p, n - 1)
       \o RequestsOf(Logged[n].student_decisions.water, p, Logged[n].step, "water")
       \o RequestsOf(Logged[n].student_decisions.fertilize, p, Logged[n].step,
                     "fertilize")

\* C8: a pot's sensor history never holds more than 24 entries and its
\* action history never more than 48; each holds the most recent entries
\* logged, oldest first.
HistoriesAreRecentWindows ==
  LET n == Len(simulation_history)
  IN \A p \in Pots :
       /\ Len(get_sensor_history(p)) = Min(n, SensorHistoryMax)
       /\ \A k \in 1 .. Len(get_sensor_history(p)) :
            LET at == n - Len(get_sensor_history(p)) + k
            IN /\ get_sensor_history(p)[k].step = Logged[at].step
               /\ get_sensor_history(p)[k].soil_moisture
                    = Logged[at].sensor_readings.pots[p].soil_moisture
               /\ get_sensor_history(p)[k].nutrient_level
                    = Logged[at].sensor_readings.pots[p].nutrient_level
       /\ Len(get_action_history(p)) <= ActionHistoryMax
       /\ get_action_history(p) = LastN(RequestsUpTo(p, n), ActionHistoryMax)

\* both buffers of a pot have evicted entries
HistoriesOverflowed ==
  \E p \in Pots :
    /\ Len(simulation_history) > SensorHistoryMax
    /\ Len(get_sensor_history(p)) = SensorHistoryMax
    /\ Len(RequestsUpTo(p, Len(simulation_history))) > ActionHistoryMax
    /\ Len(get_action_history(p)) = ActionHistoryMax

\* no request of the decisions d targets pot p
NoRequest(d, p) ==
  /\ \A k \in 1 .. Len(d.water) : d.water[k].pot_id # p
  /\ \A k \in 1 .. Len(d.fertilize) : d.fertilize[k].pot_id # p

\* the points of a step after the loop over the pots
DecisionsMade == {"water", "fertilize", "soil", "plants", "score", "record", "append"}

\* C9: when the policy raised for pot p in step s (a warning was printed),
\* the step's decisions hold no request for p, every pot was still
\* consulted, and the step completed with its StepResult collected.
PolicyErrorsContained ==
  \A k \in 1 .. Len(printed) :
    LET s == printed[k][1]
        p == printed[k][2]
    IN /\ s < step =>
            /\ s + 1 <= Len(step_results)
            /\ Results[s + 1].step = s
            /\ NoRequest(Results[s + 1].student_decisions, p)
       /\ (s = step /\ pc \in DecisionsMade) =>
            /\ NoRequest(student_decisions, p)
            /\ \A q \in Pots :
                 \E c \in 1 .. Len(invoked) : invoked[c] = <<"should_water", q>>

\* a step in which the policy raised for one pot was collected, with
\* requests for a later pot
PolicyRaisedStepCollected ==
  \E k \in 1 .. Len(printed) :
    /\ printed[k][1] < step
    /\ printed[k][1] + 1 <= Len(step_results)
    /\ \E r \in 1 .. Len(Results[printed[k][1] + 1].student_decisions.water) :
         Results[printed[k][1] + 1].student_decisions.water[r].pot_id > printed[k][2]

ReportCountsDeviceActions ==
  (pc = "done" /\ Len(step_results) >= 1) =>
    LET report == reports[Len(reports)]
    IN /\ report.student_performance.total_water_actions
            = SumSeq([k \in 1 .. Len(Results) |->
                        Len(Results[k].device_actions.water)])
       /\ report.student_performance.total_fertilize_actions
            = SumSeq([k \in 1 .. Len(Results) |->
                        Len(Results[k].device_actions.fertilize)])

\* a run has ended whose report counts water and fertilize requests, some of
\* which the devices failed to carry out
ReportWithFailedActions ==
  /\ pc = "done"
  /\ Len(step_results) >= 2
  /\ reports[Len(reports)].student_performance.total_fertilize_actions > 0
  /\ reports[Len(reports)].student_performance.successful_water_actions > 0
  /\ reports[Len(reports)].student_performance.successful_water_actions
       < reports[Len(reports)].student_performance.total_water_actions

\* C12: every call of execute_watering or execute_fertilizing, on a working
\* or a failed device, appends exactly one entry to the operation log with
\* the step, the pot, the requested parameter, the effect returned and
\* success = (effect > 0), and returns to its caller; the log only grows.
EveryCallIsLogged ==
  [][ /\ Len(operation_log') >= Len(operation_log)
      /\ SubSeq(operation_log', 1, Len(operation_log)) = operation_log
      /\ (pc = "water" /\ pc' # "done") =>
           LET entry == operation_log'[Len(operation_log')]
               decision == student_decisions.water[pot_index]
               returned == device_actions'.water[Len(device_actions'.water)].actual_effect
           IN /\ Len(operation_log') = Len(operation_log) + 1
              /\ entry.step = step
              /\ entry.action = "water"
              /\ entry.pot_id = decision.pot_id
              /\ entry.requested = decision.duration
              /\ entry.actual_effect = returned
              /\ entry.success = (returned > 0)
              /\ pc' \in {"water", "fertilize", "soil"}
      /\ (pc = "fertilize" /\ pc' # "done") =>
           LET entry == operation_log'[Len(operation_log')]
               decision == student_decisions.fertilize[pot_index]
               returned ==
                 device_actions'.fertilize[Len(device_actions'.fertilize)].actual_effect
           IN /\ Len(operation_log') = Len(operation_log) + 1
              /\ entry.step = step
              /\ entry.action = "fertilize"
              /\ entry.pot_id = decision.pot_id
              /\ entry.requested = decision.amount
              /\ entry.actual_effect = returned
              /\ entry.success = (returned > 0)
              /\ pc' \in {"fertilize", "soil"}
    ]_vars

\* the log holds a call on a failed device followed by a call that succeeded
LoggedFailureThenSuccess ==
  \E i \in 1 .. Len(operation_log) : \E j \in 1 .. Len(operation_log) :
    /\ i < j
    /\ ~operation_log[i].success
    /\ operation_log[i].actual_effect = 0
    /\ operation_log[j].success
    /\ operation_log[j].action = operation_log[i].action

\* the device actions that target pot p and had a positive effect
ActionsOn(actions, p) ==
  [ water |-> SelectSeq(actions.water,
                        LAMBDA a : a.pot_id = p /\ a.actual_effect > 0),
    fertilize |-> SelectSeq(actions.fertilize,
                            LAMBDA a : a.pot_id = p /\ a.actual_effect > 0) ]

\* C13: in the soil update of a step, pot p's moisture and nutrients change
\* as if the step's only actuations were those that target p with a
\* positive effect: failed actuations and actuations on other pots add
\* nothing.
SoilUpdateAttribution ==
  [][ (pc = "soil" /\ pc' = "plants") =>
        \A p \in Pots :
          /\ soil_states'[p].moisture
               = update_moisture_simple(soil_states[p], current_weather,
                                        ActionsOn(device_actions, p), plants[p])
          /\ soil_states'[p].nutrients
               = update_nutrients_simple(soil_states[p], current_weather,
                                         ActionsOn(device_actions, p), plants[p])
          /\ ActionsOn(device_actions, p).water = << >> =>
               soil_states'[p].moisture <= soil_states[p].moisture + RainMoisture
          /\ ActionsOn(device_actions, p).fertilize = << >> =>
               soil_states'[p].nutrients <= soil_states[p].nutrients
    ]_vars

\* a soil update has run in a step where the watering of one pot failed and
\* the watering of another succeeded
SoilUpdatedAfterMixedActions ==
  /\ pc = "plants"
  /\ \E i \in 1 .. Len(device_actions.water) :
       \E j \in 1 .. Len(device_actions.water) :
         /\ ~device_actions.water[i].success
         /\ device_actions.water[j].success
         /\ ActionsOn(device_actions, device_actions.water[i].pot_id).water = << >>
         /\ soil_states[device_actions.water[i].pot_id].moisture
              < soil_states[device_actions.water[j].pot_id].moisture

\* a caller forces the pump's fault probability to 0 before the run:
\* simulator.device_manager.water_pump.failure_probability = 0
ForcePumpReliable ==
  /\ pc = "idle"
  /\ water_pump.failure_probability # 0
  /\ water_pump' = [water_pump EXCEPT !.failure_probability = 0]
  /\ UNCHANGED << pc, step, total_steps, is_running, policy, rng,
        current_weather, weather_history, fertilizer, sensor_failures,
        reading_count, operation_log, soil_states, plants, score_history,
        simulation_history, sensor_history, action_history, daily_summaries,
        sensor_readings, student_decisions, device_actions, plant_states,
        pot_index, printed, invoked, heap, step_results, reports >>

NextReliablePump == RunStep \/ Interrupt \/ ForcePumpReliable

\* One run of MaxSteps steps, before which the pump's fault probability may
\* be forced to 0.
SpecReliablePump == Init /\ [][NextReliablePump]_vars

\* C14: while the pump's fault probability is 0, every watering request, in
\* every step and for every pot, is logged with success true and an effect
\* equal to the configured water effect, and so recorded in device_actions.
ReliablePumpAlwaysWaters ==
  [][ ( /\ pc = "water"
        /\ water_pump.failure_probability = 0
        /\ Len(operation_log') = Len(operation_log) + 1 )
      => /\ operation_log'[Len(operation_log')].action = "water"
         /\ operation_log'[Len(operation_log')].pot_id
              = student_decisions.water[pot_index].pot_id
         /\ operation_log'[Len(operation_log')].success
         /\ operation_log'[Len(operation_log')].actual_effect = water_effect
         /\ device_actions'.water[Len(device_actions'.water)].success
         /\ device_actions'.water[Len(device_actions'.water)].actual_effect
              = water_effect
         /\ ~water_pump'.is_failed
    ]_vars

\* a run with the fault probability at 0 has watered every pot in several
\* steps while the dispenser failed
ReliablePumpWatered ==
  /\ water_pump.failure_probability = 0
  /\ water_pump.count >= 3 * NumPots
  /\ step >= 3
  /\ fertilizer.is_failed
  /\ \A k \in 1 .. Len(operation_log) :
       operation_log[k].action = "water" => operation_log[k].success

\* C15: the over-saturation term lowers the score: an evaluation that
\* differs from another only in one plant's soil moisture, m1 > m2 >= 1.0,
\* scores no more with m1 than with m2.
SaturationLowersScore ==
  pc = "score" =>
    \A p \in Pots : \A m2 \in MoistureExcessLimit .. MoistureMax :
      plants[p].soil_moisture > m2 =>
        score_record(step, plants, device_actions).final_score
          <= score_record(step, [plants EXCEPT ![p].soil_moisture = m2],
                          device_actions).final_score

\* the points of a step between the plant update and the next step
SnapshotsTaken == {"score", "record", "append"}

BelowCritical(p) ==
  \/ soil_states[p].moisture < plant_config[SpeciesOf(p)].critical_soil
  \/ soil_states[p].nutrients < plant_config[SpeciesOf(p)].critical_nutrient

\* C17: under the policy that never waters and never fertilizes, in every
\* step in which a pot's moisture or nutrients are below the plant's
\* critical threshold, the plant's health after the step is at most its
\* health before the step.
NeglectNeverHeals ==
  [][ ( /\ policy = Policy("never", "never")
        /\ pc = "plants"
        /\ pc' = "score" )
      => \A p \in Pots :
           BelowCritical(p) => plants'[p].health <= plants[p].health
    ]_vars

\* under that policy a living plant has just lost health in a step whose
\* soil moisture was below its critical threshold
NeglectedPlantDeclined ==
  /\ policy = Policy("never", "never")
  /\ pc = "score"
  /\ Len(step_results) >= 1
  /\ \E p \in Pots :
       /\ soil_states[p].moisture < plant_config[SpeciesOf(p)].critical_soil
       /\ plants[p].health > 0
       /\ plants[p].health < Results[Len(step_results)].plant_states[p].health

\* One run of MaxSteps steps that nobody interrupts: the interpreter keeps
\* executing run_simulation, whose steps each return.
SpecRun == Init /\ [][RunStep]_vars /\ WF_vars(RunStep)

\* C18: without an interruption run_simulation(n) performs the steps
\* 0, 1, ..., n-1 in that order, one at a time, and terminates with exactly
\* n collected StepResults whose step fields are 0 .. n-1 in order.
RunCompletes ==
  <>[](/\ pc = "done"
       /\ ~is_running
       /\ Len(step_results) = total_steps
       /\ \A i \in 1 .. total_steps : Results[i].step = i - 1
       /\ Len(reports) = 1
       /\ reports[1].simulation_summary.total_steps = total_steps)

\* the run has returned after all its steps
RunReturnedAfterAllSteps ==
  /\ pc = "done"
  /\ Len(step_results) = total_steps
  /\ Results[total_steps].step = total_steps - 1
  /\ Len(printed) > 0

\* the number of calls of policy function f for pot p in this step
CallsOf(f, p) ==
  Cardinality({c \in 1 .. Len(invoked) : invoked[c] = <<f, p>>})

\* C19: once the loop over the pots of a step is over, should_water and
\* should_fertilize have each been invoked exactly once for each of the five
\* pots, also for a pot where the other function raised.
EachPolicyCalledOncePerPot ==
  pc \in DecisionsMade =>
    \A p \in Pots :
      /\ CallsOf("should_water", p) = 1
      /\ CallsOf("should_fertilize", p) = 1

\* C20: a reading of the stuck fault type reports moisture 0.5 and nutrient
\* 0.5 whatever the pot's soil, and only a pot whose sensor is in the failed
\* state at that read gets one.
StuckReadsHalf ==
  sensor_readings # << >> =>
    \A p \in DOMAIN sensor_readings.pots :
      sensor_readings.pots[p].kind = "stuck" =>
        /\ sensor_readings.pots[p].soil_moisture = 500
        /\ sensor_readings.pots[p].nutrient_level = 500
        /\ p \in DOMAIN sensor_failures

StuckReadingOfOtherSoil ==
  /\ pc = "decide"
  /\ \E p \in DOMAIN sensor_readings.pots :
       /\ sensor_readings.pots[p].kind = "stuck"
       /\ plants[p].soil_moisture # 500
       /\ plants[p].nutrient_level # 500

\* C21: a call that finds the device failed at a step >= its
\* failure_end_step makes the device operational without a fault draw, so
\* the call returns the configured effect and is recorded with success true.
RecoveryCallSucceeds ==
  [][ /\ ( /\ pc = "water"
           /\ Len(operation_log') = Len(operation_log) + 1
           /\ water_pump.is_failed
           /\ step >= water_pump.failure_end_step )
         => /\ ~water_pump'.is_failed
            /\ operation_log'[Len(operation_log')].actual_effect = water_effect
            /\ operation_log'[Len(operation_log')].success
            /\ device_actions'.water[Len(device_actions'.water)].success
      /\ ( /\ pc = "fertilize"
           /\ Len(operation_log') = Len(operation_log) + 1
           /\ fertilizer.is_failed
           /\ step >= fertilizer.failure_end_step )
         => /\ ~fertilizer'.is_failed
            /\ operation_log'[Len(operation_log')].actual_effect = fertilizer_effect
            /\ operation_log'[Len(operation_log')].success
            /\ device_actions'.fertilize[Len(device_actions'.fertilize)].success
    ]_vars

\* C22: a pump fault triggered by a call at step s has recovery step s + 1:
\* once a pump call of step s has returned effect 0, every further pump call
\* of step s returns effect 0 too.
PumpFaultLastsOneStep ==
  [][ ( /\ pc = "water"
        /\ Len(operation_log') = Len(operation_log) + 1 )
      => /\ ( /\ ~(water_pump.is_failed /\ step < water_pump.failure_end_step)
              /\ water_pump'.is_failed )
            => water_pump'.failure_end_step = step + 1
         /\ ( \E k \in 1 .. Len(device_actions.water) :
                device_actions.water[k].actual_effect = 0 )
            => operation_log'[Len(operation_log')].actual_effect = 0
    ]_vars

\* the classes of a reading
FaultyKinds == {"stuck", "drift", "spike"}
ErrorKinds == {"extreme", "missing"}

\* C23: the readings of a step hold exactly one reading for each pot, of one
\* class: a faulty one exactly for the pots in the failed state, an error one
\* (extreme or absent) only for a pot that is not failed; an absent value is
\* absent for moisture and nutrient together, and a failed pot never has one.
OneReadingClassPerPot ==
  sensor_readings # << >> =>
    /\ DOMAIN sensor_readings.pots = Pots
    /\ \A p \in Pots :
         LET reading == sensor_readings.pots[p]
         IN /\ reading.kind \in {"normal"} \cup FaultyKinds \cup ErrorKinds
            /\ reading.kind \in FaultyKinds <=> p \in DOMAIN sensor_failures
            /\ reading.kind \in ErrorKinds => p \notin DOMAIN sensor_failures
            /\ reading.soil_moisture = None <=> reading.nutrient_level = None
            /\ reading.soil_moisture = None <=> reading.kind = "missing"
            /\ p \in DOMAIN sensor_failures =>
                 /\ reading.soil_moisture # None
                 /\ reading.nutrient_level # None

AllReadingClassesEmitted ==
  /\ pc = "decide"
  /\ \E p, q, e \in Pots :
       /\ sensor_readings.pots[p].kind = "missing"
       /\ sensor_readings.pots[q].kind \in FaultyKinds
       /\ sensor_readings.pots[e].kind \in {"extreme", "normal"}

\* the pots still failed at a read of this step, before its fault draws
StillFailed == {q \in DOMAIN sensor_failures : step < sensor_failures[q]}

\* the generator after the fault draw of pot p at a read: one draw for each
\* pot up to p that is not failed
FaultDrawOf(p) ==
  RandomAfter(rng, Cardinality({q \in 0 .. p : q \notin StillFailed}))

\* C24: at every read, a pot enters the failed state only when it is not
\* failed (its own draw succeeded), with failure_end_step = step + 1; a pot
\* failed after the read has step < failure_end_step and a faulty reading; a
\* failed pot with step >= failure_end_step leaves the failed set before the
\* draws; a pot that is still failed keeps its failure_end_step; the pump and
\* the dispenser are unchanged.
SensorFaultLifecycle ==
  [][ (pc = "sensors" /\ pc' = "decide") =>
        /\ \A p \in Pots :
             /\ p \in StillFailed =>
                  /\ p \in DOMAIN sensor_failures'
                  /\ sensor_failures'[p] = sensor_failures[p]
             /\ p \notin StillFailed =>
                  /\ p \in DOMAIN sensor_failures'
                       <=> Below(FaultDrawOf(p), failure_probability)
                  /\ p \in DOMAIN sensor_failures' =>
                       sensor_failures'[p] = step + SensorFailureDuration
             /\ p \in DOMAIN sensor_failures' =>
                  /\ step < sensor_failures'[p]
                  /\ sensor_readings'.pots[p].kind \in FaultyKinds
             /\ p \notin DOMAIN sensor_failures' =>
                  sensor_readings'.pots[p].kind \notin FaultyKinds
        /\ water_pump' = water_pump
        /\ fertilizer' = fertilizer
    ]_vars

\* after the read of this step one pot that was failed at the last read is
\* no longer failed, another has just entered the failed state, and the pump
\* is failed
SensorLeftAndEntered ==
  /\ pc = "decide"
  /\ step >= 1
  /\ Len(step_results) >= step
  /\ water_pump.is_failed
  /\ \E p, q \in Pots :
       /\ Results[step].sensor_readings.pots[q].kind \in FaultyKinds
       /\ q \notin DOMAIN sensor_failures
       /\ Results[step].sensor_readings.pots[p].kind \notin FaultyKinds
       /\ p \in DOMAIN sensor_failures

\* the points of a step between the sensor snapshot and the soil update
BeforeSoilUpdate == {"decide", "water", "fertilize", "soil"}

\* C25: a normal reading of step s holds the pot's soil moisture and
\* nutrients of the end of step s - 1 (0.5 and 0.5 at step 0): it equals the
\* soil until this step's soil update and the last step's plant snapshot
\* throughout the step, and the actuation, the rain and the soil update of
\* step s leave it as it is.
NormalReadingIsLastStepsSoil ==
  pc \in DecisionsMade \cup {"decide"} =>
    \A p \in Pots :
      LET reading == sensor_readings.pots[p]
      IN reading.kind = "normal" =>
           /\ reading.timestamp = step
           /\ step = 0 =>
                /\ reading.soil_moisture = 500
                /\ reading.nutrient_level = 500
           /\ step >= 1 =>
                /\ reading.soil_moisture
                     = Results[step].plant_states[p].soil_moisture
                /\ reading.nutrient_level
                     = Results[step].plant_states[p].nutrient_level
           /\ pc \in BeforeSoilUpdate =>
                /\ reading.soil_moisture = soil_states[p].moisture
                /\ reading.nutrient_level = soil_states[p].nutrients

\* after the soil update of a rainy step >= 1 with a successful watering, a
\* normal reading differs from the pot's soil
NormalReadingBehindSoil ==
  /\ pc = "plants"
  /\ step >= 1
  /\ current_weather.is_raining
  /\ \E p \in Pots :
       /\ sensor_readings.pots[p].kind = "normal"
       /\ sensor_readings.pots[p].soil_moisture # 500
       /\ sensor_readings.pots[p].soil_moisture # soil_states[p].moisture
       /\ \E k \in 1 .. Len(device_actions.water) :
            /\ device_actions.water[k].pot_id = p
            /\ device_actions.water[k].success

\* ============================================================ plant updates
\* The plants over a whole season.  Steps 1-5 of step_simulation matter to
\* step 6 by the soil they leave, which the soil manager keeps within
\* [0, 1.3] and [0, 1.5]; here that soil is an input, drawn for all pots from
\* values in every tier of every species' thresholds and redrawn every
\* SoilPeriod steps, and step 6 is the UpdatePlants of the run.
MoistureInputs == {100, 280, 400, 600, 1100}
NutrientInputs == {100, 200, 500, 700, 1300}

\* steps 7-8 of a step_simulation and steps 1-5 of the next one, as far as
\* the plants see them: current_step moves on and the soil is what it is
SoilArrives ==
  /\ pc \in {"idle", "score"}
  /\ pc = "score" => step + 1 < total_steps
  /\ step' = IF pc = "idle" THEN 0 ELSE step + 1
  /\ IF step' % SoilPeriod = 0
     THEN \E m \in MoistureInputs, n \in NutrientInputs :
            soil_states' = [p \in Pots |->
              [soil_states[p] EXCEPT !.moisture = m, !.nutrients = n]]
     ELSE soil_states' = soil_states
  /\ pc' = "plants"
  /\ UNCHANGED << total_steps, is_running, policy, rng, current_weather,
        weather_history, water_pump, fertilizer, sensor_failures,
        reading_count, operation_log, plants, score_history,
        simulation_history, sensor_history, action_history, daily_summaries,
        sensor_readings, student_decisions, device_actions, plant_states,
        pot_index, printed, invoked, heap, step_results, reports >>

InitPlants ==
  /\ Constructed
  /\ rng = EntropyState(1)
  /\ policy = Policy("never", "never")
  /\ total_steps = GrowSteps
  /\ reports = << >>

NextPlants == SoilArrives \/ UpdatePlants

SpecPlants == InitPlants /\ [][NextPlants]_vars

\* ------------------------------------------------------ plant properties
\* the species with the phenology of the base class
BaseSpecies == {"lettuce", "spinach", "radish"}

\* the order of the stages of the Phenology enumeration
StageRank(ph) ==
  CASE ph = "seedling" -> 1
    [] ph = "vegetative" -> 2
    [] ph = "flowering" -> 3
    [] ph = "harvestable" -> 4
    [] ph = "dormant" -> 5
    [] OTHER -> 0

\* the stage the day thresholds 7, 0.7, 0.9 and 1.2 harvest_day give
StageOnDay(days, harvest_day) ==
  IF days < 7 THEN "seedling"
  ELSE IF 10 * days < 7 * harvest_day THEN "vegetative"
  ELSE IF 10 * days < 9 * harvest_day THEN "flowering"
  ELSE IF 10 * days < 12 * harvest_day THEN "harvestable"
  ELSE "dormant"

\* C26: for a lettuce, spinach or radish with health above 0 before and
\* after the update of step s, the plant's and the snapshot's phenology is
\* the stage that days_alive = s div 8 has against 7, 0.7, 0.9 and 1.2 times
\* harvest_day, and it is not an earlier stage than the one before.
PhenologyFollowsDays ==
  [][ (pc = "plants" /\ pc' = "score") =>
        \A p \in Pots :
          ( /\ SpeciesOf(p) \in BaseSpecies
            /\ plants[p].health > 0
            /\ plants'[p].health > 0 )
          => /\ plants'[p].days_alive = step \div StepsPerDay
             /\ plants'[p].phenology
                  = StageOnDay(step \div StepsPerDay,
                               plant_config[SpeciesOf(p)].harvest_day)
             /\ plant_states'[p].phenology = plants'[p].phenology
             /\ plants[p].phenology # "dead" =>
                  StageRank(plants'[p].phenology) >= StageRank(plants[p].phenology)
    ]_vars

\* under a soil that never changed a base-rule plant in full health has
\* reached the dormant stage
HealthyPlantDormant ==
  /\ pc = "score"
  /\ step < SoilPeriod
  /\ \E p \in Pots :
       /\ SpeciesOf(p) \in BaseSpecies
       /\ plants[p].phenology = "dormant"
       /\ plants[p].health = HealthMax

\* the pot of the nasturtium
NasturtiumPot == 4

\* the nasturtium enters (or is in) its harvestable stage in the update of
\* this step: alive when _update_phenology runs, at flower_stage_day or later
Flowers ==
  /\ direct_damage(plants[NasturtiumPot], soil_states[NasturtiumPot]).health > 0
  /\ step \div StepsPerDay >= flower_stage_day

\* C27: the nasturtium's moisture threshold is the configured one until the
\* update in which it first is alive at flower_stage_day or later; from that
\* update on it is the flowering-stage value and never reverts; and that
\* same update's health, growth and stress already use the new value: with a
\* moisture between the two thresholds and nutrients in the normal range the
\* health takes the mild scarcity term, the growth is halved and the stress
\* counts the moisture.
NasturtiumThresholdRises ==
  [][ (pc = "plants" /\ pc' = "score") =>
        LET old == plants[NasturtiumPot]
            new == plants'[NasturtiumPot]
            cfg == plant_config.nasturtium
        IN /\ old.soil_threshold \in {cfg.soil_threshold, flower_stage_soil_threshold}
           /\ old.soil_threshold = flower_stage_soil_threshold =>
                new.soil_threshold = flower_stage_soil_threshold
           /\ (old.soil_threshold = cfg.soil_threshold /\ ~Flowers) =>
                new.soil_threshold = cfg.soil_threshold
           /\ Flowers =>
                /\ new.soil_threshold = flower_stage_soil_threshold
                /\ ( /\ new.soil_moisture >= cfg.soil_threshold
                     /\ new.soil_moisture < flower_stage_soil_threshold
                     /\ new.nutrient_level >= cfg.nutrient_threshold
                     /\ new.nutrient_level <= NutrientExcessLimit )
                   => /\ new.health = Max(0, old.health - 100)
                      /\ new.stress_level = 200
                      /\ new.biomass - old.biomass
                           = IF new.health <= 2000 THEN 0
                             ELSE (cfg.growth_rate_max * 3 * 5 * new.health)
                                    \div 1000000
    ]_vars

\* the nasturtium in the step of its first harvestable day, under a moisture
\* that met the configured threshold and misses the flowering-stage one
NasturtiumJustFlowered ==
  /\ pc = "score"
  /\ step = flower_stage_day * StepsPerDay
  /\ plants[NasturtiumPot].phenology = "harvestable"
  /\ plants[NasturtiumPot].soil_threshold = flower_stage_soil_threshold
  /\ plants[NasturtiumPot].soil_moisture = 400
  /\ plants[NasturtiumPot].health = HealthMax - 100
  /\ plants[NasturtiumPot].stress_level = 200

\* C28: in every plant update the biomass does not decrease, and it stays
\* the same when the health after the update's health step is <= 20 (a dead
\* plant included) or the plant is dormant.
BiomassNeverShrinks ==
  [][ (pc = "plants" /\ pc' = "score") =>
        \A p \in Pots :
          /\ plants'[p].biomass >= plants[p].biomass
          /\ ( \/ plants'[p].health <= 2000
               \/ plants'[p].phenology \in {"dead", "dormant"} )
             => plants'[p].biomass = plants[p].biomass
          /\ plant_states'[p].biomass = plants'[p].biomass
    ]_vars

\* one plant has grown and is alive with health <= 20 while another is
\* dormant in full health
WeakAndDormantPlants ==
  /\ pc = "score"
  /\ \E p, q \in Pots :
       /\ plants[p].health > 0
       /\ plants[p].health <= 2000
       /\ plants[p].phenology # "dead"
       /\ plants[p].biomass > NewPlant(p).biomass
       /\ plants[q].phenology = "dormant"
       /\ plants[q].health = HealthMax
       /\ plants[q].biomass > NewPlant(q).biomass

\* the soil of pot p is over-saturated
Saturated(p) ==
  \/ soil_states[p].moisture > MoistureExcessLimit
  \/ soil_states[p].nutrients > NutrientExcessLimit

\* the health the direct over-saturation penalty of step 6 leaves: 20 times
\* the moisture above 1.0 and 30 times the nutrients above 1.2 are taken off
AfterPenalty(p) ==
  plants[p].health
    - 2 * Max(0, soil_states[p].moisture - MoistureExcessLimit)
    - 3 * Max(0, soil_states[p].nutrients - NutrientExcessLimit)

\* C29: in a step whose soil update left a pot's moisture above 1.0 or its
\* nutrients above 1.2, the plant's update starts from the health less the
\* direct penalty (the phenology sees it, the health rule adds to it), and
\* the health after the step is strictly lower than before, or 0.
SaturationCostsHealth ==
  [][ (pc = "plants" /\ pc' = "score") =>
        \A p \in Pots :
          Saturated(p) =>
            /\ plants'[p].health = 0 \/ plants'[p].health < plants[p].health
            /\ AfterPenalty(p) <= 0 => plants'[p].phenology = "dead"
            /\ plants'[p].health <= Max(0, AfterPenalty(p) - 500)
    ]_vars

\* a plant over a saturated soil has lost health in this step and lives on
SaturatedPlantWeakened ==
  /\ pc = "score"
  /\ step >= 1
  /\ Len(step_results) >= step
  /\ \E p \in Pots :
       /\ Saturated(p)
       /\ plants[p].health > 0
       /\ plants[p].health < Results[step].plant_states[p].health - 500

\* the sum of the terms of the health rule for pot p under its soil: the
\* scarcity terms by tier, the two excess terms, and the recovery
HealthTerms(p) ==
  LET m == soil_states[p].moisture
      n == soil_states[p].nutrients
      cfg == plant_config[SpeciesOf(p)]
      threshold == plants'[p].soil_threshold
      radish == SpeciesOf(p) = "radish"
      dry == IF m < cfg.critical_soil THEN (IF radish THEN -300 ELSE -500)
             ELSE IF m < threshold THEN (IF radish THEN -50 ELSE -100)
             ELSE 0
      hungry == IF n < cfg.critical_nutrient THEN -500
                ELSE IF n < cfg.nutrient_threshold THEN -100
                ELSE 0
      toxic == IF n > NutrientExcessLimit THEN -1000 ELSE 0
      logged == IF m > MoistureExcessLimit THEN -800 ELSE 0
      recovery == IF m >= threshold /\ n >= cfg.nutrient_threshold THEN 300 ELSE 0
  IN dry + hungry + toxic + logged + recovery

\* C30: in every plant update, whatever the tiers of the pot's moisture and
\* nutrients, the health becomes the clamp of the health the update starts
\* from plus the sum of the rule's terms (-5 / -1 by moisture scarcity, -3 /
\* -0.5 for the radish, -5 / -1 by nutrient scarcity, -10 above 1.2
\* nutrients, -8 above 1.0 moisture, +3 with both at or above their
\* thresholds); no other term is ever added.
HealthDeltaIsSumOfTerms ==
  [][ (pc = "plants" /\ pc' = "score") =>
        \A p \in Pots :
          plants'[p].health
            = Max(0, Min(HealthMax, AfterPenalty(p) + HealthTerms(p)))
    ]_vars

\* under a moisture below every critical threshold and normal nutrients the
\* radish has lost 3.0 and the lettuce 5.0
RadishLostLess ==
  /\ pc = "score"
  /\ step = 0
  /\ soil_states[0].moisture < plant_config.lettuce.critical_soil
  /\ soil_states[2].moisture < plant_config.radish.critical_soil
  /\ soil_states[0].nutrients >= plant_config.lettuce.nutrient_threshold
  /\ plants[0].health = HealthMax - 500
  /\ plants[2].health = HealthMax - 300

\* ---------------------------------------------------- histories and reports
\* the recorded StepResults of day k (steps 8k .. 8k+7), in order
DayOf(k) == [i \in 1 .. StepsPerDay |-> Logged[StepsPerDay * k + i]]

\* C31: after n recorded steps there are exactly n div 8 daily summaries,
\* numbered 0, 1, ... in order; summary k aggregates exactly the StepResults
\* of steps 8k .. 8k+7, and a summary is added only when a step 8k+7 is
\* recorded, so a partial day has none.
DailySummaryPerDay ==
  /\ Len(daily_summaries) = Len(simulation_history) \div StepsPerDay
  /\ \A k \in 0 .. Len(daily_summaries) - 1 :
       LET summary == daily_summaries[k + 1]
           day == DayOf(k)
       IN /\ summary.day = k
          /\ summary.steps = [i \in 1 .. StepsPerDay |-> StepsPerDay * k + i - 1]
          /\ \A i \in 1 .. StepsPerDay : day[i].step = StepsPerDay * k + i - 1
          /\ summary.total_water_actions
               = SumSeq([i \in 1 .. StepsPerDay |-> Len(day[i].student_decisions.water)])
          /\ summary.total_fertilize_actions
               = SumSeq([i \in 1 .. StepsPerDay |->
                           Len(day[i].student_decisions.fertilize)])
          /\ summary.total_rainfall
               = SumSeq([i \in 1 .. StepsPerDay |->
                           IF day[i].weather.is_raining
                           THEN day[i].weather.rainfall_amount ELSE 0])
          /\ summary.avg_temperature
               = SumSeq([i \in 1 .. StepsPerDay |-> day[i].weather.temperature])
                   \div StepsPerDay

\* the second day is summarised, with requests in it, and four steps of the
\* third are recorded
SecondDaySummarised ==
  /\ Len(daily_summaries) = 2
  /\ Len(simulation_history) = 2 * StepsPerDay + 4
  /\ daily_summaries[2].total_water_actions > 0
  /\ daily_summaries[2].total_water_actions # daily_summaries[1].total_water_actions

\* C32: the weather generator's history holds at most 24 entries after any
\* number of generate_weather calls.
WeatherHistoryIsWindow ==
  Len(weather_history) <= WeatherWindow

\* base_consumption * temp_factor of this step's weather
Evaporation ==
  evaporation_base_rate
    + (evaporation_base_rate * Max(0, current_weather.temperature - 2500) * 2)
        \div 10000

\* C33: in a soil update where the pot's plant is not alive, nothing is
\* taken up by the plant: without rain the nutrients change by the
\* successful fertilizations only (so they are unchanged without one) and
\* the moisture changes by the successful waterings less the evaporation.
DeadPlantConsumesNothing ==
  [][ (pc = "soil" /\ pc' = "plants") =>
        \A p \in Pots :
          ( /\ \/ plants[p].phenology = "dead"
               \/ plants[p].health <= 0
            /\ ~current_weather.is_raining )
          => /\ soil_states'[p].nutrients
                  = Min(NutrientsMax, soil_states[p].nutrients
                                        + EffectOn(device_actions.fertilize, p))
             /\ EffectOn(device_actions.fertilize, p) = 0 =>
                  soil_states'[p].nutrients = soil_states[p].nutrients
             /\ soil_states'[p].moisture
                  = Max(0, Min(MoistureMax,
                      soil_states[p].moisture + EffectOn(device_actions.water, p)
                        - Evaporation))
    ]_vars

\* a dry step has just updated the soil of a pot whose plant is marked dead
\* with some health left: the nutrients are those of the last snapshot and
\* the moisture is lower
DeadPlantSoilUpdated ==
  /\ pc = "plants"
  /\ step >= 1
  /\ Len(step_results) >= step
  /\ ~current_weather.is_raining
  /\ \E p \in Pots :
       /\ plants[p].phenology = "dead"
       /\ plants[p].health > 0
       /\ soil_states[p].nutrients > 0
       /\ soil_states[p].nutrients = Results[step].plant_states[p].nutrient_level
       /\ soil_states[p].moisture < Results[step].plant_states[p].soil_moisture

\* pot p's moisture or nutrients is below its normal threshold in the
\* update of this step
BelowNormal(p) ==
  \/ soil_states[p].moisture < plants'[p].soil_threshold
  \/ soil_states[p].nutrients < plant_config[SpeciesOf(p)].nutrient_threshold

\* C34: the +1 baseline recovery never applies: in an update with moisture
\* or nutrients below the normal threshold the health falls (or is 0), and
\* a health that rises has risen by the +3 of both values meeting their
\* thresholds.
BaselineRecoveryNeverTaken ==
  [][ (pc = "plants" /\ pc' = "score") =>
        \A p \in Pots :
          /\ BelowNormal(p) =>
               \/ plants'[p].health = 0
               \/ plants'[p].health < AfterPenalty(p)
          /\ plants'[p].health > Max(0, AfterPenalty(p)) =>
               /\ ~BelowNormal(p)
               /\ ~Saturated(p)
               /\ plants'[p].health = Min(HealthMax, plants[p].health + 300)
    ]_vars

\* the first update under a moisture between the lettuce's critical and
\* normal thresholds and normal nutrients took 1.0 off its health
MildScarcityCostsHealth ==
  /\ pc = "score"
  /\ step = 0
  /\ soil_states[0].moisture >= plant_config.lettuce.critical_soil
  /\ soil_states[0].moisture < plant_config.lettuce.soil_threshold
  /\ soil_states[0].nutrients >= plant_config.lettuce.nutrient_threshold
  /\ soil_states[0].nutrients <= NutrientExcessLimit
  /\ plants[0].health = HealthMax - 100

\* the number of entries of list for pot p
CountFor(list, p) ==
  Cardinality({k \in 1 .. Len(list) : list[k].pot_id = p})

\* the penalty without its over-watering and over-fertilizing terms
PenaltyOfPlants ==
  (NumPots - Cardinality({p \in Pots : is_alive(plants[p])})) * penalty_plant_death
    + SumPots([p \in Pots |->
                 5 * Max(0, plants[p].soil_moisture - MoistureExcessLimit)],
              NumPots)

\* C35: in every step each pot has at most one water request and at most one
\* fertilize request, so the evaluator counts at most 5 water actions and at
\* most 5 fertilize actions, and the penalty it records has no over-watering
\* (count above 10) or over-fertilizing (count above 15) part.
AtMostOneRequestPerPot ==
  /\ pc \in DecisionsMade =>
       \A p \in Pots :
         /\ CountFor(student_decisions.water, p) <= 1
         /\ CountFor(student_decisions.fertilize, p) <= 1
         /\ CountFor(device_actions.water, p) <= 1
         /\ CountFor(device_actions.fertilize, p) <= 1
  /\ \A i \in 1 .. Len(score_history) :
       /\ score_history[i].water_actions <= NumPots
       /\ score_history[i].fertilize_actions <= NumPots
  /\ pc \in {"record", "append"} =>
       score_history[Len(score_history)].penalty = PenaltyOfPlants

\* a step was scored in which all five pots were watered and fertilized
EveryPotRequestedTwice ==
  /\ pc = "record"
  /\ score_history[Len(score_history)].water_actions = NumPots
  /\ score_history[Len(score_history)].fertilize_actions = NumPots

\* C36: whenever a final report has been generated, the simulator holds as
\* many StepResults as the state manager has entries in its simulation
\* history and as the evaluator has entries in its score history.
HistoriesAgreeAtReport ==
  pc = "done" =>
    /\ Len(step_results) = Len(simulation_history)
    /\ Len(simulation_history) = Len(score_history)

\* C37: at the invocation of the policy for pot p in step s, the
\* sensor_history of the observation holds the readings of pot p of the
\* steps max(0, s - 24) .. s - 1, oldest first: it is empty at step 0 and
\* never holds the reading of step s.
SensorHistoryIsPastReadings ==
  pc = "decide" =>
    LET p == pot_index
        h == Observation(p).sensor_history
        n == Len(h)
    IN /\ n = Min(step, SensorHistoryMax)
       /\ \A k \in 1 .. n :
            LET past == Logged[step - n + k]
            IN /\ h[k].step = step - n + k - 1
               /\ h[k].step < step
               /\ past.step = h[k].step
               /\ h[k].soil_moisture = past.sensor_readings.pots[p].soil_moisture
               /\ h[k].nutrient_level = past.sensor_readings.pots[p].nutrient_level
               /\ h[k].temperature = past.sensor_readings.pots[p].temperature

\* the policy is invoked for the last pot at step 25 with a full history
\* whose newest entry differs from the reading of the step
PolicySeesFullPastWindow ==
  /\ pc = "decide"
  /\ step = SensorHistoryMax + 1
  /\ pot_index = NumPots - 1
  /\ Len(Observation(pot_index).sensor_history) = SensorHistoryMax
  /\ Observation(pot_index).sensor_history[1].step = 1
  /\ Observation(pot_index).sensor_history[SensorHistoryMax].soil_moisture
       # Observation(pot_index).sensor_data.soil_moisture

\* pot p has an entry of kind a for step s in its action history
Recorded(p, s, a) ==
  \E k \in 1 .. Len(get_action_history(p)) :
    get_action_history(p)[k] = [step |-> s, action |-> a]

\* the list of requests or of device actions holds an entry for pot p
Targets(list, p) == \E k \in 1 .. Len(list) : list[k].pot_id = p

\* C38: a pot's action history records the requests of the policy, not the
\* outcomes: for every logged step and pot, an entry of a kind is recorded
\* exactly when the step's decisions hold a request of that kind for the
\* pot, also when the device action of the request failed with effect 0;
\* every entry is of a logged step, and nothing is recorded for the step in
\* progress before it is logged.
ActionHistoryRecordsRequests ==
  \A p \in Pots :
    /\ \A n \in 1 .. Len(simulation_history) :
         /\ Targets(Logged[n].student_decisions.water, p)
              <=> Recorded(p, Logged[n].step, "water")
         /\ Targets(Logged[n].student_decisions.fertilize, p)
              <=> Recorded(p, Logged[n].step, "fertilize")
         /\ \A k \in 1 .. Len(Logged[n].device_actions.water) :
              LET a == Logged[n].device_actions.water[k]
              IN (a.pot_id = p /\ ~a.success /\ a.actual_effect = 0)
                   => Recorded(p, Logged[n].step, "water")
         /\ \A k \in 1 .. Len(Logged[n].device_actions.fertilize) :
              LET a == Logged[n].device_actions.fertilize[k]
              IN (a.pot_id = p /\ ~a.success /\ a.actual_effect = 0)
                   => Recorded(p, Logged[n].step, "fertilize")
    /\ \A k \in 1 .. Len(get_action_history(p)) :
         \E n \in 1 .. Len(simulation_history) :
           Logged[n].step = get_action_history(p)[k].step

\* a step was logged in which the pump failed for one pot's request, which
\* is recorded, and another pot had no request and got no entry
FailedRequestRecorded ==
  /\ pc = "append"
  /\ \E p \in Pots :
       /\ \E k \in 1 .. Len(device_actions.water) :
            /\ device_actions.water[k].pot_id = p
            /\ ~device_actions.water[k].success
            /\ device_actions.water[k].actual_effect = 0
       /\ Recorded(p, step, "water")
  /\ \E q \in Pots :
       /\ ~Targets(student_decisions.water, q)
       /\ ~Recorded(q, step, "water")

\* ------------------------------------------------------- a neglected garden
InitNeglect ==
  /\ Constructed
  /\ rng \in {EntropyState(i) : i \in 1 .. NeglectSeeds}
  /\ policy = Policy("never", "never")
  /\ total_steps = NeglectSteps
  /\ reports = << >>

\* the steps of a run whose policy makes no request: no device is operated
NextNeglect ==
  \/ RunSimulation
  \/ StepWeather
  \/ GetSensorReadings
  \/ MakeStudentDecision
  \/ UpdateSoil
  \/ UpdatePlants
  \/ CalculateScore
  \/ LogStep
  \/ AppendResult
  \/ FinishRun

\* One run of NeglectSteps steps under the policy that never waters and
\* never fertilizes, that nobody interrupts: the interpreter keeps executing
\* run_simulation, whose steps each return.
SpecNeglect == InitNeglect /\ [][NextNeglect]_vars /\ WF_vars(NextNeglect)

\* every plant is dead, with health 0
AllPlantsDead ==
  \A p \in Pots : plants[p].health = 0 /\ plants[p].phenology = "dead"

\* C39: under the policy that never waters and never fertilizes, whatever
\* the weather, every plant eventually has health 0 and from some step on
\* all plants stay dead forever; and no step increases a pot's nutrients.
NeglectedGardenDies ==
  /\ <>[]AllPlantsDead
  /\ [][\A p \in Pots : soil_states'[p].nutrients <= soil_states[p].nutrients]_vars

\* all plants are dead and stay so in a later step with rain, which leaves
\* a pot moist with nutrients below the threshold of its plant
NeglectedGardenDead ==
  /\ AllPlantsDead
  /\ pc = "score"
  /\ \A p \in Pots : plant_states[p].health = 0
  /\ current_weather.is_raining
  /\ \E p \in Pots :
       /\ soil_states[p].moisture > 0
       /\ soil_states[p].nutrients < plant_config[SpeciesOf(p)].nutrient_threshold

====
